---- MODULE Spec2Model ----
(***************************************************************************)
(* Model of the judger-rs sandbox supervisor: Config::check (src/lib.rs),  *)
(* run (src/runner.rs) with its watchdog thread, the forked child          *)
(* (src/child.rs) and the guest as the supervisor observes it through      *)
(* wait4, the interactor, and the syscall filters (src/seccomp.rs).        *)
(***************************************************************************)
EXTENDS Integers, Sequences, FiniteSets, TLC

(***************************************************************************)
(* Bounds of the model.                                                    *)
(***************************************************************************)
\* largest max_real_time (ms) of the configurations the run model is started with
MaxRealTime == 1
\* clock ticks (ms) that may pass between start_time and the arming of the watchdog
MaxSetupDelay == 1
\* magnitude of the limit values the validator is tried on
MaxCheckVal == 2
\* largest value of the arguments of the system calls the filters are tried on
MaxFlags == 4
\* Rust's i64 and u64 are carried with this many bits
WordBits == 16
\* largest max_cpu_time (ms) of the resource-limit model
MaxCpuTime == 2000
\* longest string, and longest list of strings, of the execve model
MaxStrLen == 2
MaxArgs == 2
\* longest message, and largest number of calls, of the logger model
MaxMsgLen == 1
MaxWrites == 2

\* the clock is followed up to this many ms after start_time
Horizon == MaxSetupDelay + MaxRealTime

(***************************************************************************)
(* Program constants.                                                      *)
(***************************************************************************)
SIGKILL == 9
SIGUSR1 == 10
SIGSEGV == 11
SIGXFSZ == 25
\* result.memory = ru_maxrss * 1024
KiB == 1024
\* the signal of a seccomp KillProcess action
SIGSYS == 31
\* libc open flags
O_WRONLY == 1
O_RDWR == 2

VARIABLES
    cfg,          \* the Config borrowed by run (limits only)
    isRoot,       \* Uid::current().is_root()
    interactor,   \* TRUE iff run was given Some(path)
    guestHalts,   \* behaviour of the guest: FALSE = it never stops by itself
    pc,           \* position of the supervisor inside run
    ret,          \* "none" while run is executing, then "Ok" or the Err returned
    result,       \* the RunResult being built / returned
    log,          \* lines appended to the log file by this run
    checked,      \* value Config::check returned ("none" before it is called)
    pipes,        \* number of pipes created by nix::unistd::pipe()
    forks,        \* number of successful fork() calls
    gstate,       \* guest process: "none", "setup", "running", "zombie", "reaped"
    gexit,        \* what the kernel holds for the terminated guest: its wait status
    execed,       \* history: the child's execve succeeded, the guest program ran
    status,       \* the supervisor's local `status`
    rusage,       \* the supervisor's local `rusage`
    inter,        \* interactor subprocess: "none", "running", "killed"
    cancel_flag,  \* the AtomicBool shared with the watchdog
    wd,           \* watchdog thread: "none", "sleeping", "kill_guest", "kill_inter", "done"
    wdThreads,    \* number of watchdog threads spawned
    wdSlept,      \* ms the watchdog has slept so far
    wdSaw,        \* value the watchdog loaded from cancel_flag ("none" before the load)
    elapsed,      \* ms on the clock since start_time was taken
    waitReturned, \* history: wait4 on the guest has returned successfully
    sigkillSent,  \* history: number of kill(child, SIGKILL) calls of the watchdog
    lateKills,    \* history: how many of them were made after wait4 had returned
    interKills,   \* history: number of inter.kill() calls of the watchdog
    rule,         \* config.seccomp_rule_name ("None" or the name of a policy)
    cstep,        \* position of the forked child inside child_process
    cstarted,     \* history: the steps of child_process started so far, in order
    cfailed,      \* history: the step of child_process whose system call failed
    gfd,          \* what fds 0, 1 and 2 of the guest refer to
    ifd,          \* what stdin and stdout of the interactor refer to
    interExit,    \* how the interactor process ended ("none" while it has not)
    call,         \* the system call under consideration
    decided,      \* the action each policy takes on it ("none" before evaluation)
    cargs,        \* config.args and config.env
    rlim,         \* the resource limits of the child, as its setrlimit calls left them
    argv,         \* the vectors execve was called with ("called" FALSE before the call)
    logfile,      \* content of a log file, character by character
    writes,       \* history: the messages given to Logger::write, in call order
    held,         \* for each pipe end, the processes that hold it open
    call_no,      \* "first" or "second": which of two back-to-back calls of run this is
    old,          \* what the first call left behind when the second one began
    first,        \* history: how the first call ended
    samePid,      \* the pid of the guest is the pid the guest of the first call had
    staleKilled   \* history: the guest was ended by the watchdog of the first call

vars == <<cfg, isRoot, interactor, guestHalts, pc, ret, result, log, checked,
          pipes, forks, gstate, gexit, execed, status, rusage, inter, cancel_flag,
          wd, wdThreads, wdSlept, wdSaw, elapsed, waitReturned, sigkillSent,
          lateKills, interKills, rule, cstep, cstarted, cfailed, gfd, ifd, interExit,
          call, decided, cargs, rlim, argv, logfile, writes, held,
          call_no, old, first, samePid, staleKilled>>

childVars == <<rule, cstep, cstarted, cfailed, gfd, cargs, rlim, argv>>
interVars == <<ifd, interExit>>
sysVars == <<call, decided>>
logVars == <<logfile, writes>>
fdVars == <<held>>
twiceVars == <<call_no, old, first, samePid, staleKilled>>

(***************************************************************************)
(* Config and its validator.                                               *)
(***************************************************************************)
Config(cpu, real, mem, stack, nproc, out) ==
    [max_cpu_time |-> cpu, max_real_time |-> real, max_memory |-> mem,
     max_stack |-> stack, max_process_number |-> nproc, max_output_size |-> out]

\* lib.rs 44-51
check_stackLikeTheOthers(c) ==
    ~( (c.max_cpu_time < 1 /\ c.max_cpu_time # -1)
       \/ (c.max_real_time < 1 /\ c.max_real_time # -1)
       \/ (c.max_stack < 1 /\ c.max_stack # -1)
       \/ (c.max_memory < 1 /\ c.max_memory # -1)
       \/ (c.max_process_number < 1 /\ c.max_process_number # -1)
       \/ (c.max_output_size < 1 /\ c.max_output_size # -1) )
check(c) ==
    ~( (c.max_cpu_time < 1 /\ c.max_cpu_time # -1)
       \/ (c.max_real_time < 1 /\ c.max_real_time # -1)
       \/ (c.max_stack < 1)
       \/ (c.max_memory < 1 /\ c.max_memory # -1)
       \/ (c.max_process_number < 1 /\ c.max_process_number # -1)
       \/ (c.max_output_size < 1 /\ c.max_output_size # -1) )

\* configurations the run model is started with: valid and invalid ones
RealTimeLimits == {-1, 0} \cup (1..MaxRealTime)
RunConfigs ==
    { Config(cpu, real, mem, stack, nproc, -1) :
        cpu \in {-1, 0, 1}, real \in RealTimeLimits, mem \in {-2, -1, KiB},
        stack \in {0, 1}, nproc \in {-1, 0} }

\* configurations the validator alone is tried on
CheckVals == (-MaxCheckVal)..MaxCheckVal
CheckConfigs ==
    { Config(cpu, real, mem, stack, nproc, out) :
        cpu \in CheckVals, real \in CheckVals, mem \in CheckVals,
        stack \in CheckVals, nproc \in CheckVals, out \in CheckVals }

(***************************************************************************)
(* RunResult, wait status and rusage.                                      *)
(***************************************************************************)
DefaultResult ==
    [cpu_time |-> 0, real_time |-> 0, memory |-> 0, signal |-> 0,
     exit_code |-> 0, result |-> "Success"]

\* ErrorCode::to_i32 for the codes the child exits with
to_i32(e) ==
    CASE e = "Success" -> 0
      [] e = "LoadSeccompFailed" -> -6
      [] e = "SetrlimitFailed" -> -7
      [] e = "Dup2Failed" -> -8
      [] e = "SetuidFailed" -> -9
      [] e = "ExecveFailed" -> -10

\* wait status of a process that called exit(code): the kernel keeps code & 0xff
ExitedStatus(code) == (code % 256) * 256
\* wait status of a process terminated by signal sig, with the core-dump bit
SignaledStatus(sig, core) == sig + (IF core THEN 128 ELSE 0)

WIFSIGNALED(s) == (s % 128) # 0 /\ (s % 128) # 127
WTERMSIG(s) == s % 128
\* (the low byte taken for the exit code)
WEXITSTATUS_lowByte(s) == s % 256
WEXITSTATUS(s) == (s \div 256) % 256

ZeroRusage == [ru_utime |-> [tv_sec |-> 0, tv_usec |-> 0], ru_maxrss |-> 0]

\* rusage values the kernel may report for the guest
Utimes == { [tv_sec |-> 0, tv_usec |-> 1999],
            [tv_sec |-> 1, tv_usec |-> 1000] }
MaxRsses == {1, 2}
Rusages == { [ru_utime |-> u, ru_maxrss |-> m] : u \in Utimes, m \in MaxRsses }

CpuTimeOf(ru) == ru.ru_utime.tv_sec * 1000 + (ru.ru_utime.tv_usec \div 1000)
MemoryOf(ru) == ru.ru_maxrss * KiB

(***************************************************************************)
(* Classification, as run computes it after wait4 (runner.rs 113-149).     *)
(* Each operator is one statement of the code acting on `result`.          *)
(***************************************************************************)
\* runner.rs 130-134: the SIGSEGV branch
SegvVerdict_alwaysRuntimeError(c, r) == [r EXCEPT !.result = "RuntimeError"]
SegvVerdict(c, r) ==
    IF c.max_memory # -1 /\ r.memory > c.max_memory
    THEN [r EXCEPT !.result = "MemoryLimitExceeded"]
    ELSE [r EXCEPT !.result = "RuntimeError"]

\* (a terminating signal does not change the verdict)
RefineSignal_ignored(r) == r
\* runner.rs 136-138
RefineSignal(r) ==
    IF r.signal # 0 THEN [r EXCEPT !.result = "RuntimeError"] ELSE r

\* (a memory use equal to the limit counts as exceeding it)
RefineMemory_atLimit(c, r) ==
    IF c.max_memory # -1 /\ r.memory >= c.max_memory
    THEN [r EXCEPT !.result = "MemoryLimitExceeded"] ELSE r

\* runner.rs 139-141
RefineMemory(c, r) ==
    IF c.max_memory # -1 /\ r.memory > c.max_memory
    THEN [r EXCEPT !.result = "MemoryLimitExceeded"] ELSE r

\* runner.rs 142-144
RefineRealTime_atLimit(c, r) ==
    IF c.max_real_time # -1 /\ r.real_time >= c.max_real_time
    THEN [r EXCEPT !.result = "RealTimeLimitExceeded"] ELSE r
RefineRealTime(c, r) ==
    IF c.max_real_time # -1 /\ r.real_time > c.max_real_time
    THEN [r EXCEPT !.result = "RealTimeLimitExceeded"] ELSE r

\* runner.rs 145-147
RefineCpuTime_keepsMemory(c, r) ==
    IF c.max_cpu_time # -1 /\ r.cpu_time > c.max_cpu_time
       /\ r.result # "MemoryLimitExceeded"
    THEN [r EXCEPT !.result = "CpuTimeLimitExceeded"] ELSE r
RefineCpuTime(c, r) ==
    IF c.max_cpu_time # -1 /\ r.cpu_time > c.max_cpu_time
    THEN [r EXCEPT !.result = "CpuTimeLimitExceeded"] ELSE r

\* (SIGUSR1 gives SystemError, which the limit refinements then override)
Classify_usr1Refined(c, st, ru, real_time) ==
    LET r0 == [DefaultResult EXCEPT !.real_time = real_time]
        r1 == IF WIFSIGNALED(st) THEN [r0 EXCEPT !.signal = WTERMSIG(st)] ELSE r0
        r2 == [r1 EXCEPT !.exit_code = WEXITSTATUS(st),
                         !.cpu_time = CpuTimeOf(ru),
                         !.memory = MemoryOf(ru)]
        r3 == IF r2.signal = SIGUSR1
              THEN [r2 EXCEPT !.result = "SystemError"]
              ELSE IF r2.exit_code # 0
                   THEN [r2 EXCEPT !.result = "RuntimeError"] ELSE r2
    IN  IF r3.signal = SIGSEGV
        THEN SegvVerdict(c, r3)
        ELSE RefineCpuTime(c, RefineRealTime(c, RefineMemory(c,
                 IF r3.signal = SIGUSR1 THEN r3 ELSE RefineSignal(r3))))

Classify(c, st, ru, real_time) ==
    LET r0 == [DefaultResult EXCEPT !.real_time = real_time]
        r1 == IF WIFSIGNALED(st) THEN [r0 EXCEPT !.signal = WTERMSIG(st)] ELSE r0
    IN  IF r1.signal = SIGUSR1
        THEN [r1 EXCEPT !.result = "SystemError"]
        ELSE
          LET r2 == [r1 EXCEPT !.exit_code = WEXITSTATUS(st),
                               !.cpu_time = CpuTimeOf(ru),
                               !.memory = MemoryOf(ru)]
              r3 == IF r2.exit_code # 0
                    THEN [r2 EXCEPT !.result = "RuntimeError"] ELSE r2
          IN  IF r3.signal = SIGSEGV
              THEN SegvVerdict(c, r3)
              ELSE RefineCpuTime(c, RefineRealTime(c, RefineMemory(c, RefineSignal(r3))))

(***************************************************************************)
(* The syscall filters (seccomp.rs). A filter is a default action and the  *)
(* rules added to it; the kernel takes the action of a rule that matches   *)
(* the call, and the default action when none does.                        *)
(***************************************************************************)
\* a system call: its name and its arguments 0, 1, 2 (args[i + 1] is argument i)
Syscall(name, a0, a1, a2) == [name |-> name, args |-> <<a0, a1, a2>>]
NoCall == Syscall("none", 0, 0, 0)

RECURSIVE BitAnd(_, _)
BitAnd(a, b) ==
    IF a = 0 \/ b = 0 THEN 0
    ELSE (a % 2) * (b % 2) + 2 * BitAnd(a \div 2, b \div 2)
BitOr(a, b) == a + b - BitAnd(a, b)

\* ScmpFilterContext::new(default_action)
ScmpFilterContext(action) == [default |-> action, rules |-> <<>>]
\* ScmpArgCompare::new(arg, ScmpCompareOp::MaskedEqual(mask), datum)
ScmpArgCompare(arg, mask, datum) == [arg |-> arg, mask |-> mask, datum |-> datum]
\* filter.add_rule_conditional(action, syscall, &[cmp, ...])
add_rule_conditional(filter, action, name, cmps) ==
    [filter EXCEPT !.rules = Append(@, [action |-> action, name |-> name, cmps |-> cmps])]
\* filter.add_rule(action, syscall)
add_rule(filter, action, name) == add_rule_conditional(filter, action, name, <<>>)

\* seccomp.rs 184-193
RECURSIVE apply_seccomp_filter(_, _, _)
apply_seccomp_filter(filter, sys_calls, action) ==
    IF sys_calls = <<>> THEN filter
    ELSE apply_seccomp_filter(add_rule(filter, action, Head(sys_calls)),
                              Tail(sys_calls), action)

\* seccomp.rs 31-58
syscalls_whitelist ==
    << "access", "arch_prctl", "brk", "clock_gettime", "close", "exit_group",
       "faccessat", "fstat", "futex", "getrandom", "lseek", "mmap", "mprotect",
       "munmap", "newfstatat", "pread64", "prlimit64", "read", "readlink",
       "readv", "rseq", "set_robust_list", "set_tid_address", "write", "writev",
       "execve" >>
\* seccomp.rs 65
file_io_syscalls == << "open", "openat", "dup", "dup2", "dup3" >>

\* (the mask of the comparisons tests O_WRONLY only)
c_cpp_seccomp_rules_maskWronly(allow_write_file) ==
    LET f0 == ScmpFilterContext("KillProcess")
        f1 == apply_seccomp_filter(f0, syscalls_whitelist, "Allow")
    IN  IF allow_write_file
        THEN apply_seccomp_filter(f1, file_io_syscalls, "Allow")
        ELSE LET cmp_open == ScmpArgCompare(1, O_WRONLY, 0)
                 f2 == add_rule_conditional(f1, "Allow", "open", <<cmp_open>>)
                 cmp_openat == ScmpArgCompare(2, O_WRONLY, 0)
             IN  add_rule_conditional(f2, "Allow", "openat", <<cmp_openat>>)

\* (dup3 is missing from the calls allowed for file I/O)
c_cpp_seccomp_rules_noDup3(allow_write_file) ==
    LET f0 == ScmpFilterContext("KillProcess")
        f1 == apply_seccomp_filter(f0, syscalls_whitelist, "Allow")
    IN  IF allow_write_file
        THEN apply_seccomp_filter(f1, << "open", "openat", "dup", "dup2" >>, "Allow")
        ELSE LET cmp_open == ScmpArgCompare(1, BitOr(O_WRONLY, O_RDWR), 0)
                 f2 == add_rule_conditional(f1, "Allow", "open", <<cmp_open>>)
                 cmp_openat == ScmpArgCompare(2, BitOr(O_WRONLY, O_RDWR), 0)
             IN  add_rule_conditional(f2, "Allow", "openat", <<cmp_openat>>)

\* seccomp.rs 30-101 (the filter that filter.load() installs)
c_cpp_seccomp_rules(allow_write_file) ==
    LET f0 == ScmpFilterContext("KillProcess")
        f1 == apply_seccomp_filter(f0, syscalls_whitelist, "Allow")
    IN  IF allow_write_file
        THEN apply_seccomp_filter(f1, file_io_syscalls, "Allow")
        ELSE LET cmp_open == ScmpArgCompare(1, BitOr(O_WRONLY, O_RDWR), 0)
                 f2 == add_rule_conditional(f1, "Allow", "open", <<cmp_open>>)
                 cmp_openat == ScmpArgCompare(2, BitOr(O_WRONLY, O_RDWR), 0)
             IN  add_rule_conditional(f2, "Allow", "openat", <<cmp_openat>>)

\* seccomp.rs 103-112
golang_seccomp_rules ==
    apply_seccomp_filter(ScmpFilterContext("Allow"),
                         << "socket", "fork", "vfork", "kill", "execveat" >>,
                         "KillProcess")

\* (execveat is missing from the blacklist)
node_seccomp_rules_noExecveat ==
    LET f0 == ScmpFilterContext("Allow")
        f1 == add_rule(f0, "KillProcess", "socket")
        f2 == add_rule(f1, "KillProcess", "fork")
        f3 == add_rule(f2, "KillProcess", "vfork")
    IN  add_rule(f3, "KillProcess", "kill")

\* seccomp.rs 114-128: the loop over the blacklist, one add_rule per name
node_seccomp_rules ==
    LET f0 == ScmpFilterContext("Allow")
        f1 == add_rule(f0, "KillProcess", "socket")
        f2 == add_rule(f1, "KillProcess", "fork")
        f3 == add_rule(f2, "KillProcess", "vfork")
        f4 == add_rule(f3, "KillProcess", "kill")
    IN  add_rule(f4, "KillProcess", "execveat")

\* (the O_RDWR rule for openat is missing)
general_seccomp_rules_noOpenatRdwr ==
    LET f0 == ScmpFilterContext("Allow")
        f1 == apply_seccomp_filter(f0, << "clone", "fork", "vfork", "kill", "execveat" >>,
                                   "KillProcess")
        f2 == add_rule(f1, "KillProcess", "socket")
        f3 == add_rule_conditional(f2, "KillProcess", "open",
                                   << ScmpArgCompare(1, O_WRONLY, O_WRONLY) >>)
        f4 == add_rule_conditional(f3, "KillProcess", "open",
                                   << ScmpArgCompare(1, O_RDWR, O_RDWR) >>)
    IN  add_rule_conditional(f4, "KillProcess", "openat",
                             << ScmpArgCompare(2, O_WRONLY, O_WRONLY) >>)

\* seccomp.rs 130-182
general_seccomp_rules ==
    LET f0 == ScmpFilterContext("Allow")
        f1 == apply_seccomp_filter(f0, << "clone", "fork", "vfork", "kill", "execveat" >>,
                                   "KillProcess")
        f2 == add_rule(f1, "KillProcess", "socket")
        f3 == add_rule_conditional(f2, "KillProcess", "open",
                                   << ScmpArgCompare(1, O_WRONLY, O_WRONLY) >>)
        f4 == add_rule_conditional(f3, "KillProcess", "open",
                                   << ScmpArgCompare(1, O_RDWR, O_RDWR) >>)
        f5 == add_rule_conditional(f4, "KillProcess", "openat",
                                   << ScmpArgCompare(2, O_WRONLY, O_WRONLY) >>)
    IN  add_rule_conditional(f5, "KillProcess", "openat",
                             << ScmpArgCompare(2, O_RDWR, O_RDWR) >>)

\* SeccompRuleName
Policies == {"CCpp", "CCppFileIO", "Golang", "Node", "General"}

\* seccomp.rs 20-28
load_seccomp_rules(rule_name) ==
    CASE rule_name = "CCpp" -> c_cpp_seccomp_rules(FALSE)
      [] rule_name = "CCppFileIO" -> c_cpp_seccomp_rules(TRUE)
      [] rule_name = "Golang" -> golang_seccomp_rules
      [] rule_name = "Node" -> node_seccomp_rules
      [] rule_name = "General" -> general_seccomp_rules

\* the kernel's evaluation of an installed filter on a call
\* (the argument compared with the datum as a whole, the mask left out)
CmpHolds_unmasked(cmp, c) == c.args[cmp.arg + 1] = cmp.datum
CmpHolds(cmp, c) == BitAnd(c.args[cmp.arg + 1], cmp.mask) = cmp.datum
RuleMatches(r, c) ==
    r.name = c.name /\ \A i \in 1..Len(r.cmps) : CmpHolds(r.cmps[i], c)
Evaluate(filter, c) ==
    IF \E i \in 1..Len(filter.rules) : RuleMatches(filter.rules[i], c)
    THEN LET i == CHOOSE j \in 1..Len(filter.rules) : RuleMatches(filter.rules[j], c)
         IN  filter.rules[i].action
    ELSE filter.default

\* the calls the filters are tried on: every name a filter mentions, one it
\* does not, and every value up to MaxFlags of the arguments 1 and 2
Range(seq) == { seq[i] : i \in 1..Len(seq) }
SyscallNames ==
    Range(syscalls_whitelist) \cup Range(file_io_syscalls)
      \cup {"socket", "clone", "fork", "vfork", "kill", "execveat", "getpid"}
Flags == 0..MaxFlags
Syscalls == { Syscall(n, 0, a1, a2) : n \in SyscallNames, a1 \in Flags, a2 \in Flags }

(***************************************************************************)
(* File descriptors: what an fd of a process refers to.                    *)
(***************************************************************************)
Fd(obj, end) == [obj |-> obj, end |-> end]
\* an fd the process inherited from the caller of run
Inherited == Fd("inherited", "any")
\* nix::unistd::pipe() returns (read end, write end)
pipe(id) == << Fd(id, "read"), Fd(id, "write") >>
\* runner.rs 69-70: let (interactor_stdin, interactor_stdout) = pipe()
interactor_stdin == pipe("pipe1")[1]
interactor_stdout == pipe("pipe1")[2]
\* runner.rs 71-72: let (user_stdin, user_stdout) = pipe()
user_stdin == pipe("pipe2")[1]
user_stdout == pipe("pipe2")[2]

\* the four pipe ends, and who holds a descriptor of each: a descriptor made
\* by pipe() is not close-on-exec, so a forked or spawned process inherits it
PipeEnds == { interactor_stdin, interactor_stdout, user_stdin, user_stdout }
NoneHeld == [e \in PipeEnds |-> {}]
\* the process gets a descriptor of each of the ends
Acquire(h, proc, ends) ==
    [e \in PipeEnds |-> IF e \in ends THEN h[e] \cup {proc} ELSE h[e]]
\* the process closes its descriptors of the ends (or ends, which closes all)
Release(h, proc, ends) ==
    [e \in PipeEnds |-> IF e \in ends THEN h[e] \ {proc} ELSE h[e]]
\* the ends the process holds
HeldBy(h, proc) == { e \in PipeEnds : proc \in h[e] }

(***************************************************************************)
(* The resource limits of the child (child.rs 22-61).  Rust's 64-bit       *)
(* integers are carried with WordBits bits: the arithmetic is the same,    *)
(* the largest value is I64_MAX.                                           *)
(***************************************************************************)
I64_MAX == 2^(WordBits - 1) - 1
\* the value an overflowing i64 operation leaves in a build without overflow checks
wrapping(x) == ((x + 2^(WordBits - 1)) % 2^WordBits) - 2^(WordBits - 1)
\* `x as u64`
as_u64(x) == x % 2^WordBits
\* Rust's integer division truncates toward zero
trunc_div(a, b) == IF a >= 0 THEN a \div b ELSE -((-a) \div b)

Resources == {"RLIMIT_STACK", "RLIMIT_AS", "RLIMIT_CPU", "RLIMIT_NPROC", "RLIMIT_FSIZE"}
NoLimit == [set |-> FALSE, soft |-> 0, hard |-> 0]
Limit(soft, hard) == [set |-> TRUE, soft |-> soft, hard |-> hard]
\* the limits the child inherits; `overflowed`: an i64 operation overflowed,
\* `panicked`: the build checks overflow and the child panicked
InheritedLimits ==
    [panicked |-> FALSE, overflowed |-> FALSE, limits |-> [r \in Resources |-> NoLimit]]

\* (the seconds without the additional one)
rlimit_cpu_noSlack(c) == as_u64(trunc_div(c.max_cpu_time, 1000))
\* (the seconds rounded up, without the additional one)
rlimit_cpu_roundedUp(c) == as_u64(trunc_div(c.max_cpu_time + 999, 1000))
\* child.rs 41-42: (config.max_cpu_time / 1000 + 1) as u64
rlimit_cpu(c) == as_u64(trunc_div(c.max_cpu_time, 1000) + 1)

\* child.rs 33-34: (config.max_memory * 2) as u64, the product taken in i64
rlimit_as(c) == as_u64(wrapping(c.max_memory * 2))
mul_overflows(c) == c.max_memory * 2 > I64_MAX \/ c.max_memory * 2 < -I64_MAX - 1

\* child.rs 22-61 with every setrlimit call succeeding; a build with overflow
\* checks panics at the product, after RLIMIT_STACK was set
setrlimits(c, overflow_checks) ==
    LET stack == IF c.max_stack # -1
                 THEN Limit(as_u64(c.max_stack), as_u64(c.max_stack)) ELSE NoLimit
        over == c.max_memory # -1 /\ mul_overflows(c)
        rest == [r \in Resources |->
                   CASE r = "RLIMIT_STACK" -> stack
                     [] r = "RLIMIT_AS" ->
                          IF c.max_memory # -1
                          THEN Limit(rlimit_as(c), rlimit_as(c)) ELSE NoLimit
                     [] r = "RLIMIT_CPU" ->
                          IF c.max_cpu_time # -1
                          THEN Limit(rlimit_cpu(c), rlimit_cpu(c)) ELSE NoLimit
                     [] r = "RLIMIT_NPROC" ->
                          IF c.max_process_number # -1
                          THEN Limit(as_u64(c.max_process_number),
                                     as_u64(c.max_process_number)) ELSE NoLimit
                     [] r = "RLIMIT_FSIZE" ->
                          IF c.max_output_size # -1
                          THEN Limit(as_u64(c.max_output_size),
                                     as_u64(c.max_output_size)) ELSE NoLimit]
    IN  IF over /\ overflow_checks
        THEN [panicked |-> TRUE, overflowed |-> TRUE,
              limits |-> [r \in Resources |-> IF r = "RLIMIT_STACK" THEN stack ELSE NoLimit]]
        ELSE [panicked |-> FALSE, overflowed |-> over, limits |-> rest]

\* the exit status of a Rust process whose main thread panicked
PanicExit == 101

(***************************************************************************)
(* The vectors of execve (child.rs 122-133).  A string is a sequence of    *)
(* bytes; NUL is the zero byte.                                            *)
(***************************************************************************)
NUL == 0
Bytes == {NUL, 97}
\* CString::new(s): Err if s has an interior zero byte
CString_new(s) ==
    IF \E i \in 1..Len(s) : s[i] = NUL THEN [ok |-> FALSE, val |-> <<>>]
                                      ELSE [ok |-> TRUE, val |-> s]
\* (the string is passed whatever it holds)
to_cstring_asGiven(s) == s
\* CString::new(arg.as_str()).unwrap_or_default(): CString::default() is empty
to_cstring(s) == IF CString_new(s).ok THEN CString_new(s).val ELSE <<>>
\* child.rs 123-132: args and env mapped element by element
execve_vectors(a) ==
    [called |-> TRUE,
     args |-> [i \in 1..Len(a.args) |-> to_cstring(a.args[i])],
     env |-> [i \in 1..Len(a.env) |-> to_cstring(a.env[i])]]
NotCalled == [called |-> FALSE, args |-> <<>>, env |-> <<>>]
NoArgs == [args |-> <<>>, env |-> <<>>]

(***************************************************************************)
(* The logger (logger.rs).  The file is a sequence of characters; the      *)
(* level, the timestamp and the source position are one character each.    *)
(***************************************************************************)
LF == "\n"
LogLevels == {"Fatal", "Info"}
\* (the entry is not terminated)
log_write_fmt_noNewline(level, ts, src, line, msg) ==
    <<level, " ", "[", ts, "]", " ", "[", src, ":", line, "]", " ">> \o msg
\* logger.rs 111-118: format!("{:?} [{}] [{}:{}] {}\n", level, datetime,
\* source_filename, line, msg_buf)
log_write_fmt(level, ts, src, line, msg) ==
    <<level, " ", "[", ts, "]", " ", "[", src, ":", line, "]", " ">> \o msg \o <<LF>>
\* the entry of a recorded call
EntryOf(w) == log_write_fmt(w.level, "ts", "file", "line", w.message)
NoWrites == [before |-> <<>>, calls |-> <<>>]

(***************************************************************************)
(* Initial states.                                                         *)
(***************************************************************************)
\* armed: the watchdog of the first call has yet to send its SIGKILL;
\* pidFree: the guest of the first call was reaped, its pid can be given again
NothingLeft == [armed |-> FALSE, pidFree |-> FALSE]
NoFirst == [classified |-> FALSE, verdict |-> "none", status |-> 0, overReal |-> FALSE]

InitRest ==
    /\ ret = "none"
    /\ result = DefaultResult
    /\ log = <<>>
    /\ checked = "none"
    /\ pipes = 0
    /\ forks = 0
    /\ gstate = "none"
    /\ gexit = [status |-> 0]
    /\ execed = FALSE
    /\ status = 0
    /\ rusage = ZeroRusage
    /\ inter = "none"
    /\ cancel_flag = FALSE
    /\ wd = "none"
    /\ wdThreads = 0
    /\ wdSlept = 0
    /\ wdSaw = "none"
    /\ elapsed = 0
    /\ waitReturned = FALSE
    /\ sigkillSent = 0
    /\ lateKills = 0
    /\ interKills = 0
    /\ cstep = "none"
    /\ cstarted = <<>>
    /\ cfailed = "none"
    /\ gfd = [fd \in 0..2 |-> Inherited]
    /\ ifd = [stdin |-> Inherited, stdout |-> Inherited]
    /\ interExit = "none"
    /\ call = NoCall
    /\ decided = [p \in Policies |-> "none"]
    /\ rlim = InheritedLimits
    /\ argv = NotCalled
    /\ held = NoneHeld
    /\ call_no = "first"
    /\ old = NothingLeft
    /\ first = NoFirst
    /\ samePid = FALSE
    /\ staleKilled = FALSE

\* no Logger of its own is followed: the lines of run are in `log`
NoLogger ==
    /\ logfile = <<>>
    /\ writes = NoWrites

\* the policies the run model is started with
RunRules == {"None", "CCpp"}

Init ==
    /\ cfg \in RunConfigs
    /\ rule \in RunRules
    /\ isRoot \in BOOLEAN
    /\ interactor \in BOOLEAN
    /\ guestHalts \in BOOLEAN
    /\ pc = "new"
    /\ cargs = NoArgs
    /\ NoLogger
    /\ InitRest

(***************************************************************************)
(* The supervisor: run (runner.rs 36-168), one action per step at which    *)
(* the operating system, the guest or the watchdog can interleave.         *)
(***************************************************************************)
FatalLine(msg) == [level |-> "Fatal", message |-> msg]

\* Logger::new(&config.log_path): an open failure is returned as Err
OpenLog ==
    /\ pc = "new"
    /\ \E ok \in BOOLEAN :
         IF ok THEN /\ pc' = "root_check"
                    /\ ret' = ret
               ELSE /\ pc' = "done"
                    /\ ret' = "Err: open log"
    /\ UNCHANGED <<childVars, interVars, sysVars, logVars, fdVars, cfg, isRoot, interactor, guestHalts, twiceVars, result, log, checked,
                   pipes, forks, gstate, gexit, execed, status, rusage, inter,
                   cancel_flag, wd, wdThreads, wdSlept, wdSaw, elapsed,
                   waitReturned, sigkillSent, lateKills, interKills>>

\* (the early return also sets the exit code, to 1)
ReturnLogged_withCode(verdict, msg) ==
    /\ result' = [result EXCEPT !.result = verdict, !.exit_code = 1]
    /\ pc' = "done"
    /\ \E ok \in BOOLEAN :
         IF ok THEN /\ log' = Append(log, FatalLine(msg))
                    /\ ret' = "Ok"
               ELSE /\ log' = log
                    /\ ret' = "Err: write log"

\* the early return of a setup verdict together with its Fatal log line;
\* a failing logger.write is returned as Err
ReturnLogged(verdict, msg) ==
    /\ result' = [result EXCEPT !.result = verdict]
    /\ pc' = "done"
    /\ \E ok \in BOOLEAN :
         IF ok THEN /\ log' = Append(log, FatalLine(msg))
                    /\ ret' = "Ok"
               ELSE /\ log' = log
                    /\ ret' = "Err: write log"

\* (the root check left out)
CheckRoot_noGate ==
    /\ pc = "root_check"
    /\ pc' = "config_check"
    /\ UNCHANGED <<childVars, interVars, sysVars, logVars, fdVars, cfg, isRoot, interactor, guestHalts, twiceVars, checked, result, log, ret,
                   pipes, forks, gstate, gexit, execed, status, rusage, inter,
                   cancel_flag, wd, wdThreads, wdSlept, wdSaw, elapsed,
                   waitReturned, sigkillSent, lateKills, interKills>>

\* runner.rs 41-53
CheckRoot ==
    /\ pc = "root_check"
    /\ IF ~isRoot
       THEN ReturnLogged("RootRequired", "Root privileges are required")
       ELSE /\ pc' = "config_check"
            /\ UNCHANGED <<result, log, ret>>
    /\ UNCHANGED <<childVars, interVars, sysVars, logVars, fdVars, cfg, isRoot, interactor, guestHalts, twiceVars, checked,
                   pipes, forks, gstate, gexit, execed, status, rusage, inter,
                   cancel_flag, wd, wdThreads, wdSlept, wdSaw, elapsed,
                   waitReturned, sigkillSent, lateKills, interKills>>

\* (the InvalidConfig branch logs but does not return)
CheckConfig_noReturn ==
    /\ pc = "config_check"
    /\ checked' = (IF check(cfg) THEN "true" ELSE "false")
    /\ pc' = "pipe"
    /\ ret' = ret
    /\ IF ~check(cfg)
       THEN /\ result' = [result EXCEPT !.result = "InvalidConfig"]
            /\ log' = Append(log, FatalLine("Invalid configuration provided"))
       ELSE UNCHANGED <<result, log>>
    /\ UNCHANGED <<childVars, interVars, sysVars, logVars, fdVars, cfg, isRoot, interactor, guestHalts, twiceVars,
                   pipes, forks, gstate, gexit, execed, status, rusage, inter,
                   cancel_flag, wd, wdThreads, wdSlept, wdSaw, elapsed,
                   waitReturned, sigkillSent, lateKills, interKills>>

\* runner.rs 55-68: config.check(), then start_time = SystemTime::now()
CheckConfig ==
    /\ pc = "config_check"
    /\ checked' = (IF check(cfg) THEN "true" ELSE "false")
    /\ IF ~check(cfg)
       THEN ReturnLogged("InvalidConfig", "Invalid configuration provided")
       ELSE /\ pc' = "pipe"
            /\ UNCHANGED <<result, log, ret>>
    /\ UNCHANGED <<childVars, interVars, sysVars, logVars, fdVars, cfg, isRoot, interactor, guestHalts, twiceVars,
                   pipes, forks, gstate, gexit, execed, status, rusage, inter,
                   cancel_flag, wd, wdThreads, wdSlept, wdSaw, elapsed,
                   waitReturned, sigkillSent, lateKills, interKills>>

\* runner.rs 69-72: two pipes, created whether or not there is an interactor;
\* a failure of either call is returned as Err (and a first pipe is dropped)
CreatePipes ==
    /\ pc = "pipe"
    /\ \E n \in 0..2 :
         /\ pipes' = n
         /\ IF n = 2 THEN /\ pc' = "fork"
                          /\ ret' = ret
                          /\ held' = Acquire(held, "parent", PipeEnds)
                     ELSE /\ pc' = "done"
                          /\ ret' = "Err: pipe"
                          /\ held' = held
    /\ UNCHANGED <<childVars, interVars, sysVars, logVars, cfg, isRoot, interactor, guestHalts, twiceVars, result, log, checked,
                   forks, gstate, gexit, execed, status, rusage, inter,
                   cancel_flag, wd, wdThreads, wdSlept, wdSaw, elapsed,
                   waitReturned, sigkillSent, lateKills, interKills>>

\* runner.rs 73 and 163-166: fork(); Err(_) gives ForkFailed with default fields.
\* The kernel may give the new process a pid that a reaped process had.
Fork ==
    /\ pc = "fork"
    /\ \E ok \in BOOLEAN :
         IF ok THEN /\ forks' = forks + 1
                    /\ \E same \in (IF old.pidFree THEN BOOLEAN ELSE {FALSE}) :
                         samePid' = same
                    /\ gstate' = "setup"
                    /\ cstep' = "rlimit"
                    /\ pc' = "spawn_inter"
                    /\ held' = Acquire(held, "guest", HeldBy(held, "parent"))
                    /\ UNCHANGED <<result, ret>>
               ELSE /\ result' = [DefaultResult EXCEPT !.result = "ForkFailed"]
                    /\ ret' = "Ok"
                    /\ pc' = "done"
                    /\ held' = Release(held, "parent", PipeEnds)
                    /\ UNCHANGED <<forks, gstate, cstep, samePid>>
    /\ UNCHANGED <<rule, cargs, rlim, argv, cstarted, cfailed, gfd, interVars, sysVars, logVars, cfg, isRoot, interactor, guestHalts, call_no, old, first, staleKilled, log, checked,
                   pipes, gexit, execed, status, rusage, inter,
                   cancel_flag, wd, wdThreads, wdSlept, wdSaw, elapsed,
                   waitReturned, sigkillSent, lateKills, interKills>>

\* runner.rs 75-82: interactor.and_then(|path| Command::new(path)
\*     .stdin(user_stdout).stdout(user_stdin).spawn().ok())
\* The spawned process inherits every descriptor of the parent. The two Stdio
\* made by from_raw_fd own the descriptors of user_stdout and user_stdin and
\* close them when the Command is dropped, at the end of the statement.
SpawnInteractor ==
    /\ pc = "spawn_inter"
    /\ pc' = "arm"
    /\ IF interactor
       THEN \E ok \in BOOLEAN :
              IF ok THEN /\ inter' = "running"
                         /\ ifd' = [stdin |-> user_stdout, stdout |-> user_stdin]
                         /\ held' = Release(Acquire(held, "interactor", HeldBy(held, "parent")),
                                            "parent", {user_stdout, user_stdin})
                    ELSE /\ inter' = "none"
                         /\ ifd' = ifd
                         /\ held' = Release(held, "parent", {user_stdout, user_stdin})
       ELSE UNCHANGED <<inter, ifd, held>>
    /\ UNCHANGED <<childVars, interExit, sysVars, logVars, cfg, isRoot, interactor, guestHalts, twiceVars, ret, result, log,
                   checked, pipes, forks, gstate, gexit, execed, status, rusage,
                   cancel_flag, wd, wdThreads, wdSlept, wdSaw, elapsed,
                   waitReturned, sigkillSent, lateKills, interKills>>

\* (the watchdog thread is spawned whatever max_real_time is)
ArmWatchdog_always ==
    /\ pc = "arm"
    /\ pc' = "wait4"
    /\ cancel_flag' = FALSE
    /\ wd' = "sleeping"
    /\ wdThreads' = wdThreads + 1
    /\ wdSlept' = 0
    /\ UNCHANGED <<childVars, interVars, sysVars, logVars, fdVars, cfg, isRoot, interactor, guestHalts, twiceVars, ret, result, log,
                   checked, pipes, forks, gstate, gexit, execed, status, rusage, inter,
                   wdSaw, elapsed, waitReturned, sigkillSent, lateKills,
                   interKills>>

\* runner.rs 83-96: the cancel flag, and the watchdog thread if max_real_time # -1
ArmWatchdog ==
    /\ pc = "arm"
    /\ pc' = "wait4"
    /\ cancel_flag' = FALSE
    /\ IF cfg.max_real_time # -1
       THEN /\ wd' = "sleeping"
            /\ wdThreads' = wdThreads + 1
            /\ wdSlept' = 0
       ELSE UNCHANGED <<wd, wdThreads, wdSlept>>
    /\ UNCHANGED <<childVars, interVars, sysVars, logVars, fdVars, cfg, isRoot, interactor, guestHalts, twiceVars, ret, result, log,
                   checked, pipes, forks, gstate, gexit, execed, status, rusage, inter,
                   wdSaw, elapsed, waitReturned, sigkillSent, lateKills,
                   interKills>>

\* runner.rs 98-100: wait4(child, &mut status, 0, &mut rusage) returns the pid
\* once the guest has terminated, with its wait status and the resources it used
Wait4Return ==
    /\ pc = "wait4"
    /\ gstate = "zombie"
    /\ gstate' = "reaped"
    /\ status' = gexit.status
    /\ \E ru \in Rusages : rusage' = ru
    /\ waitReturned' = TRUE
    /\ pc' = "clock"
    /\ UNCHANGED <<childVars, interVars, sysVars, logVars, fdVars, cfg, isRoot, interactor, guestHalts, twiceVars, ret, result, log,
                   checked, pipes, forks, gexit, execed, inter, cancel_flag, wd,
                   wdThreads, wdSlept, wdSaw, elapsed, sigkillSent, lateKills,
                   interKills>>

\* (the cancel flag is stored on the WaitFailed return too)
Wait4Fail_storesFlag ==
    /\ pc = "wait4"
    /\ result' = [result EXCEPT !.result = "WaitFailed"]
    /\ ret' = "Ok"
    /\ pc' = "done"
    /\ cancel_flag' = TRUE
    /\ held' = Release(held, "parent", PipeEnds)
    /\ UNCHANGED <<childVars, interVars, sysVars, logVars, cfg, isRoot, interactor, guestHalts, twiceVars, log, checked, pipes,
                   forks, gstate, gexit, execed, status, rusage, inter,
                   wd, wdThreads, wdSlept, wdSaw, elapsed, waitReturned,
                   sigkillSent, lateKills, interKills>>

\* runner.rs 101-104: wait4 returned -1
Wait4Fail ==
    /\ pc = "wait4"
    /\ result' = [result EXCEPT !.result = "WaitFailed"]
    /\ ret' = "Ok"
    /\ pc' = "done"
    /\ held' = Release(held, "parent", PipeEnds)
    /\ UNCHANGED <<childVars, interVars, sysVars, logVars, cfg, isRoot, interactor, guestHalts, twiceVars, log, checked, pipes,
                   forks, gstate, gexit, execed, status, rusage, inter, cancel_flag,
                   wd, wdThreads, wdSlept, wdSaw, elapsed, waitReturned,
                   sigkillSent, lateKills, interKills>>

\* (an error of the wall clock is returned as the verdict SystemError)
ReadClock_asVerdict ==
    /\ pc = "clock"
    /\ \E ok \in BOOLEAN :
         IF ok THEN /\ result' = [result EXCEPT !.real_time = elapsed]
                    /\ pc' = "store"
                    /\ ret' = ret
                    /\ held' = held
               ELSE /\ result' = [result EXCEPT !.result = "SystemError"]
                    /\ pc' = "done"
                    /\ ret' = "Ok"
                    /\ held' = Release(held, "parent", PipeEnds)
    /\ UNCHANGED <<childVars, interVars, sysVars, logVars, cfg, isRoot, interactor, guestHalts, twiceVars, log, checked, pipes,
                   forks, gstate, gexit, execed, status, rusage, inter, cancel_flag,
                   wd, wdThreads, wdSlept, wdSaw, elapsed, waitReturned,
                   sigkillSent, lateKills, interKills>>

\* runner.rs 106-110: SystemTime::now().duration_since(start_time) in ms;
\* an error of the wall clock is returned as Err
ReadClock ==
    /\ pc = "clock"
    /\ \E ok \in BOOLEAN :
         IF ok THEN /\ result' = [result EXCEPT !.real_time = elapsed]
                    /\ pc' = "store"
                    /\ ret' = ret
                    /\ held' = held
               ELSE /\ result' = result
                    /\ pc' = "done"
                    /\ ret' = "Err: clock"
                    /\ held' = Release(held, "parent", PipeEnds)
    /\ UNCHANGED <<childVars, interVars, sysVars, logVars, cfg, isRoot, interactor, guestHalts, twiceVars, log, checked, pipes,
                   forks, gstate, gexit, execed, status, rusage, inter, cancel_flag,
                   wd, wdThreads, wdSlept, wdSaw, elapsed, waitReturned,
                   sigkillSent, lateKills, interKills>>

\* runner.rs 111-150: cancel_flag.store(true), classification, Ok(result);
\* the four OwnedFd of the pipes are dropped when run returns
StoreAndClassify ==
    /\ pc = "store"
    /\ cancel_flag' = TRUE
    /\ result' = Classify(cfg, status, rusage, result.real_time)
    /\ ret' = "Ok"
    /\ pc' = "done"
    /\ held' = Release(held, "parent", PipeEnds)
    /\ UNCHANGED <<childVars, interVars, sysVars, logVars, cfg, isRoot, interactor, guestHalts, twiceVars, log, checked, pipes,
                   forks, gstate, gexit, execed, status, rusage, inter,
                   wd, wdThreads, wdSlept, wdSaw, elapsed, waitReturned,
                   sigkillSent, lateKills, interKills>>

(***************************************************************************)
(* The guest, as the kernel and the supervisor see it: the forked child    *)
(* (runner.rs 152-162, child.rs) and then the program it execs.            *)
(***************************************************************************)
GuestExitCodes == {0, 1}
GuestSignalStatuses ==
    { SignaledStatus(SIGUSR1, FALSE), SignaledStatus(SIGSEGV, FALSE),
      SignaledStatus(SIGSEGV, TRUE), SignaledStatus(SIGXFSZ, TRUE) }

\* the process terminates: the kernel keeps its wait status
Terminate(st) ==
    /\ gstate' = "zombie"
    /\ gexit' = [status |-> st]
    /\ held' = Release(held, "guest", PipeEnds)

\* runner.rs 152-161: child_process returned Err(e), the child exits with e
ChildFail(step, e) ==
    /\ cfailed' = step
    /\ cstep' = "exited"
    /\ Terminate(ExitedStatus(to_i32(e)))
\* the step succeeded, child_process goes on to the next one
ChildGoOn(next) ==
    /\ cstep' = next
    /\ UNCHANGED <<cfailed, gstate, gexit, held>>
\* the guest is followed for as long as run executes
Observed == pc # "done"

\* the child is at the given step of child_process and starts it
ChildStep(step) ==
    /\ Observed
    /\ gstate = "setup"
    /\ cstep = step
    /\ cstarted' = Append(cstarted, step)

\* child.rs 22-61: one setrlimit per limit that is not -1; the limits set
\* before a failing call no longer matter, the child exits
Rlimits(c) ==
    { l \in {"max_stack", "max_memory", "max_cpu_time", "max_process_number",
             "max_output_size"} : c[l] # -1 }
ChildSetrlimits ==
    /\ ChildStep("rlimit")
    /\ \E ok \in (IF Rlimits(cfg) # {} THEN BOOLEAN ELSE {TRUE}), overflow_checks \in BOOLEAN :
         IF ok THEN /\ rlim' = setrlimits(cfg, overflow_checks)
                    /\ IF rlim'.panicked
                       THEN /\ cfailed' = "rlimit"
                            /\ cstep' = "exited"
                            /\ Terminate(ExitedStatus(PanicExit))
                       ELSE ChildGoOn("redirect")
               ELSE /\ rlim' = rlim
                    /\ ChildFail("rlimit", "SetrlimitFailed")
    /\ UNCHANGED <<rule, cargs, argv, gfd, execed, interVars, sysVars, logVars, cfg, isRoot, interactor, guestHalts, twiceVars, pc, ret, result, log,
                   checked, pipes, forks, status, rusage, inter, cancel_flag,
                   wd, wdThreads, wdSlept, wdSaw, elapsed, waitReturned,
                   sigkillSent, lateKills, interKills>>

\* runner.rs 155 and child.rs 63-76: the fds handed to the child in interactor
\* mode, the files it opens otherwise; (input_fd, output_fd)
child_fds(withInteractor) ==
    IF withInteractor
    THEN << interactor_stdout, interactor_stdin >>
    ELSE << Fd("input_path", "read"), Fd("output_path", "write") >>

\* (setgid is left out: the next step is setuid)
ChildRedirect_thenSetuid ==
    /\ ChildStep("redirect")
    /\ \E ok \in BOOLEAN :
         IF ok THEN /\ gfd' = [fd \in 0..2 |->
                                 CASE fd = 0 -> child_fds(interactor)[1]
                                   [] fd = 1 -> child_fds(interactor)[2]
                                   [] fd = 2 -> Fd("error_path", "write")]
                    /\ ChildGoOn("setuid")
               ELSE /\ gfd' = gfd
                    /\ ChildFail("redirect", "Dup2Failed")
    /\ UNCHANGED <<rule, cargs, rlim, argv, execed, interVars, sysVars, logVars, cfg, isRoot, interactor, guestHalts, twiceVars, pc, ret, result, log,
                   checked, pipes, forks, status, rusage, inter, cancel_flag,
                   wd, wdThreads, wdSlept, wdSaw, elapsed, waitReturned,
                   sigkillSent, lateKills, interKills>>

\* child.rs 63-113: dup2(input_fd, 0), dup2(output_fd, 1), error_path onto 2;
\* a failing open, create or dup2 ends the child, whose fds then no longer matter
ChildRedirect ==
    /\ ChildStep("redirect")
    /\ \E ok \in BOOLEAN :
         IF ok THEN /\ gfd' = [fd \in 0..2 |->
                                 CASE fd = 0 -> child_fds(interactor)[1]
                                   [] fd = 1 -> child_fds(interactor)[2]
                                   [] fd = 2 -> Fd("error_path", "write")]
                    /\ ChildGoOn("setgid")
               ELSE /\ gfd' = gfd
                    /\ ChildFail("redirect", "Dup2Failed")
    /\ UNCHANGED <<rule, cargs, rlim, argv, execed, interVars, sysVars, logVars, cfg, isRoot, interactor, guestHalts, twiceVars, pc, ret, result, log,
                   checked, pipes, forks, status, rusage, inter, cancel_flag,
                   wd, wdThreads, wdSlept, wdSaw, elapsed, waitReturned,
                   sigkillSent, lateKills, interKills>>

\* (a failure of setgid is ignored)
ChildSetgid_ignoresFailure ==
    /\ ChildStep("setgid")
    /\ \E ok \in BOOLEAN :
         IF ok THEN ChildGoOn("setuid")
               ELSE /\ cfailed' = "setgid"
                    /\ cstep' = "setuid"
                    /\ UNCHANGED <<gstate, gexit, held>>
    /\ UNCHANGED <<rule, cargs, rlim, argv, gfd, execed, interVars, sysVars, logVars, cfg, isRoot, interactor, guestHalts, twiceVars, pc, ret, result, log,
                   checked, pipes, forks, status, rusage, inter, cancel_flag,
                   wd, wdThreads, wdSlept, wdSaw, elapsed, waitReturned,
                   sigkillSent, lateKills, interKills>>

\* child.rs 115
ChildSetgid ==
    /\ ChildStep("setgid")
    /\ \E ok \in BOOLEAN :
         IF ok THEN ChildGoOn("setuid")
               ELSE ChildFail("setgid", "SetuidFailed")
    /\ UNCHANGED <<rule, cargs, rlim, argv, gfd, execed, interVars, sysVars, logVars, cfg, isRoot, interactor, guestHalts, twiceVars, pc, ret, result, log,
                   checked, pipes, forks, status, rusage, inter, cancel_flag,
                   wd, wdThreads, wdSlept, wdSaw, elapsed, waitReturned,
                   sigkillSent, lateKills, interKills>>

\* child.rs 116
ChildSetuid ==
    /\ ChildStep("setuid")
    /\ \E ok \in BOOLEAN :
         IF ok THEN ChildGoOn("seccomp")
               ELSE ChildFail("setuid", "SetuidFailed")
    /\ UNCHANGED <<rule, cargs, rlim, argv, gfd, execed, interVars, sysVars, logVars, cfg, isRoot, interactor, guestHalts, twiceVars, pc, ret, result, log,
                   checked, pipes, forks, status, rusage, inter, cancel_flag,
                   wd, wdThreads, wdSlept, wdSaw, elapsed, waitReturned,
                   sigkillSent, lateKills, interKills>>

\* child.rs 118-120: the filter is installed if a policy is configured
ChildLoadSeccomp ==
    /\ Observed
    /\ gstate = "setup"
    /\ cstep = "seccomp"
    /\ IF rule = "None"
       THEN /\ cstarted' = cstarted
            /\ ChildGoOn("execve")
       ELSE /\ cstarted' = Append(cstarted, "seccomp")
            /\ \E ok \in BOOLEAN :
                 IF ok THEN ChildGoOn("execve")
                       ELSE ChildFail("seccomp", "LoadSeccompFailed")
    /\ UNCHANGED <<rule, cargs, rlim, argv, gfd, execed, interVars, sysVars, logVars, cfg, isRoot, interactor, guestHalts, twiceVars, pc, ret, result, log,
                   checked, pipes, forks, status, rusage, inter, cancel_flag,
                   wd, wdThreads, wdSlept, wdSaw, elapsed, waitReturned,
                   sigkillSent, lateKills, interKills>>

\* child.rs 122-144: execve, called with the vectors made of config.args and
\* config.env; on success the child is the guest program
ChildExecve ==
    /\ ChildStep("execve")
    /\ \E ok \in BOOLEAN :
         IF ok THEN /\ gstate' = "running"
                    /\ execed' = TRUE
                    /\ cstep' = "guest"
                    /\ UNCHANGED <<cfailed, gexit, held>>
               ELSE /\ execed' = execed
                    /\ ChildFail("execve", "ExecveFailed")
    /\ argv' = execve_vectors(cargs)
    /\ UNCHANGED <<rule, cargs, rlim, gfd, interVars, sysVars, logVars, cfg, isRoot, interactor, guestHalts, twiceVars, pc, ret, result, log,
                   checked, pipes, forks, status, rusage, inter, cancel_flag,
                   wd, wdThreads, wdSlept, wdSaw, elapsed, waitReturned,
                   sigkillSent, lateKills, interKills>>

\* the calls the guest of the run model may attempt
GuestCalls ==
    { Syscall("read", 0, 0, 0), Syscall("socket", 0, 0, 0),
      Syscall("open", 0, O_WRONLY, 0) }

\* the guest attempts a call on which the installed filter takes KillProcess:
\* the kernel terminates it with SIGSYS (a call the filter allows goes through
\* and changes nothing of what the supervisor observes)
GuestSyscallKilled ==
    /\ Observed
    /\ gstate = "running"
    /\ guestHalts
    /\ rule # "None"
    /\ \E c \in GuestCalls :
         /\ Evaluate(load_seccomp_rules(rule), c) = "KillProcess"
         /\ call' = c
    /\ Terminate(SignaledStatus(SIGSYS, TRUE))
    /\ UNCHANGED <<childVars, interVars, decided, logVars, execed, cfg, isRoot, interactor, guestHalts, twiceVars, pc, ret, result, log,
                   checked, pipes, forks, status, rusage, inter, cancel_flag,
                   wd, wdThreads, wdSlept, wdSaw, elapsed, waitReturned,
                   sigkillSent, lateKills, interKills>>

\* a guest that stops by itself exits with some code
GuestExit ==
    /\ Observed
    /\ gstate = "running"
    /\ guestHalts
    /\ \E code \in GuestExitCodes : Terminate(ExitedStatus(code))
    /\ UNCHANGED <<childVars, interVars, sysVars, logVars, cfg, isRoot, interactor, guestHalts, twiceVars, pc, ret, result, log,
                   checked, pipes, forks, execed, status, rusage, inter, cancel_flag,
                   wd, wdThreads, wdSlept, wdSaw, elapsed, waitReturned,
                   sigkillSent, lateKills, interKills>>

\* a guest that stops by itself is terminated by a signal it raised
\* (fault, rlimit on file size)
GuestSignaled ==
    /\ Observed
    /\ gstate = "running"
    /\ guestHalts
    /\ \E st \in GuestSignalStatuses : Terminate(st)
    /\ UNCHANGED <<childVars, interVars, sysVars, logVars, cfg, isRoot, interactor, guestHalts, twiceVars, pc, ret, result, log,
                   checked, pipes, forks, execed, status, rusage, inter, cancel_flag,
                   wd, wdThreads, wdSlept, wdSaw, elapsed, waitReturned,
                   sigkillSent, lateKills, interKills>>

(***************************************************************************)
(* The interactor subprocess. run never waits for it (runner.rs 75-150);   *)
(* it ends by itself at any time while run executes, or by the watchdog.   *)
(***************************************************************************)
InterExitKinds == {"zero", "nonzero"}

InterTerminate ==
    /\ inter = "running"
    /\ interExit = "none"
    /\ Observed
    /\ \E k \in InterExitKinds : interExit' = k
    /\ held' = Release(held, "interactor", PipeEnds)
    /\ UNCHANGED <<childVars, ifd, sysVars, logVars, gstate, gexit, execed, cfg, isRoot, interactor, guestHalts, twiceVars, pc, ret, result, log,
                   checked, pipes, forks, status, rusage, inter, cancel_flag,
                   wd, wdThreads, wdSlept, wdSaw, elapsed, waitReturned,
                   sigkillSent, lateKills, interKills>>

(***************************************************************************)
(* The watchdog thread (runner.rs 87-95).                                  *)
(***************************************************************************)
\* (the loaded flag is not acted upon)
WdWake_ignoresFlag ==
    /\ wd = "sleeping"
    /\ wdSlept >= cfg.max_real_time
    /\ wdSaw' = (IF cancel_flag THEN "true" ELSE "false")
    /\ wd' = "kill_guest"
    /\ UNCHANGED <<childVars, interVars, sysVars, logVars, fdVars, cfg, isRoot, interactor, guestHalts, twiceVars, pc, ret, result, log,
                   checked, pipes, forks, gstate, gexit, execed, status, rusage,
                   inter, cancel_flag, wdThreads, wdSlept, elapsed, waitReturned,
                   sigkillSent, lateKills, interKills>>

\* thread::sleep(max_real_time ms) has returned; cancel_flag is loaded
WdWake ==
    /\ wd = "sleeping"
    /\ wdSlept >= cfg.max_real_time
    /\ wdSaw' = (IF cancel_flag THEN "true" ELSE "false")
    /\ wd' = (IF cancel_flag THEN "done" ELSE "kill_guest")
    /\ UNCHANGED <<childVars, interVars, sysVars, logVars, fdVars, cfg, isRoot, interactor, guestHalts, twiceVars, pc, ret, result, log,
                   checked, pipes, forks, gstate, gexit, execed, status, rusage, inter,
                   cancel_flag, wdThreads, wdSlept, elapsed, waitReturned,
                   sigkillSent, lateKills, interKills>>

\* (a signal the guest survives is sent)
WdKillGuest_harmless ==
    /\ wd = "kill_guest"
    /\ wd' = "kill_inter"
    /\ sigkillSent' = sigkillSent + 1
    /\ lateKills' = lateKills + (IF waitReturned THEN 1 ELSE 0)
    /\ UNCHANGED <<childVars, interVars, sysVars, logVars, fdVars, cfg, isRoot, interactor, guestHalts, twiceVars, pc, ret, result, log,
                   checked, pipes, forks, gstate, gexit, execed, status, rusage,
                   inter, cancel_flag, wdThreads, wdSlept, wdSaw, elapsed,
                   waitReturned, interKills>>

\* kill(child, SIGKILL): ends a live guest; the error for a reaped pid is dropped
WdKillGuest ==
    /\ wd = "kill_guest"
    /\ wd' = "kill_inter"
    /\ sigkillSent' = sigkillSent + 1
    /\ lateKills' = lateKills + (IF waitReturned THEN 1 ELSE 0)
    /\ IF gstate \in {"setup", "running"}
       THEN Terminate(SignaledStatus(SIGKILL, FALSE))
       ELSE UNCHANGED <<gstate, gexit, held>>
    /\ UNCHANGED <<childVars, interVars, sysVars, logVars, cfg, isRoot, interactor, guestHalts, twiceVars, pc, ret, result, log,
                   checked, pipes, forks, execed, status, rusage, inter, cancel_flag,
                   wdThreads, wdSlept, wdSaw, elapsed, waitReturned,
                   interKills>>

\* (the interactor is left alone)
WdKillInter_skipped ==
    /\ wd = "kill_inter"
    /\ wd' = "done"
    /\ UNCHANGED <<childVars, interVars, sysVars, logVars, fdVars, cfg, isRoot, interactor, guestHalts, twiceVars, pc, ret, result, log,
                   checked, pipes, forks, gstate, gexit, execed, status, rusage,
                   inter, interKills, cancel_flag, wdThreads, wdSlept, wdSaw,
                   elapsed, waitReturned, sigkillSent, lateKills>>

\* if let Some(mut inter) = inter_child { inter.kill() }
WdKillInter ==
    /\ wd = "kill_inter"
    /\ wd' = "done"
    /\ IF inter # "none"
       THEN /\ inter' = "killed"
            /\ interKills' = interKills + 1
            /\ interExit' = (IF interExit = "none" THEN "signaled" ELSE interExit)
            /\ held' = Release(held, "interactor", PipeEnds)
       ELSE UNCHANGED <<inter, interKills, interExit, held>>
    /\ UNCHANGED <<childVars, ifd, sysVars, logVars, cfg, isRoot, interactor, guestHalts, twiceVars, pc, ret, result, log,
                   checked, pipes, forks, gstate, gexit, execed, status, rusage,
                   cancel_flag, wdThreads, wdSlept, wdSaw, elapsed,
                   waitReturned, sigkillSent, lateKills>>

(***************************************************************************)
(* The clock: one millisecond passes. real_time is a whole number of ms    *)
(* (runner.rs 108, as_millis), so time is counted in ms. The clock is      *)
(* followed from start_time to the reading of line 106, and further for as *)
(* long as the watchdog sleeps; thread::sleep lasts at least its duration. *)
(***************************************************************************)
Measuring == pc \in {"pipe", "fork", "spawn_inter", "arm", "wait4", "clock"}
Sleeping == wd = "sleeping" /\ wdSlept < cfg.max_real_time

Tick ==
    /\ \/ Measuring /\ elapsed < (IF pc \in {"wait4", "clock"} THEN Horizon ELSE MaxSetupDelay)
       \/ Sleeping
    /\ elapsed' = (IF Measuring THEN elapsed + 1 ELSE elapsed)
    /\ wdSlept' = (IF Sleeping THEN wdSlept + 1 ELSE wdSlept)
    /\ UNCHANGED <<childVars, interVars, sysVars, logVars, fdVars, cfg, isRoot, interactor, guestHalts, twiceVars, pc, ret, result, log,
                   checked, pipes, forks, gstate, gexit, execed, status, rusage, inter,
                   cancel_flag, wd, wdThreads, wdSaw, waitReturned,
                   sigkillSent, lateKills, interKills>>

Next ==
    \/ OpenLog
    \/ CheckRoot
    \/ CheckConfig
    \/ CreatePipes
    \/ Fork
    \/ SpawnInteractor
    \/ ArmWatchdog
    \/ Wait4Return
    \/ Wait4Fail
    \/ ReadClock
    \/ StoreAndClassify
    \/ ChildSetrlimits
    \/ ChildRedirect
    \/ ChildSetgid
    \/ ChildSetuid
    \/ ChildLoadSeccomp
    \/ ChildExecve
    \/ GuestSyscallKilled
    \/ InterTerminate
    \/ GuestExit
    \/ GuestSignaled
    \/ WdWake
    \/ WdKillGuest
    \/ WdKillInter
    \/ Tick

Spec == Init /\ [][Next]_vars

\* Scheduling: the supervisor thread and the watchdog thread both get to run,
\* the clock advances, and wait4 returns once the guest has terminated.
\* Nothing is assumed of the guest, and failures are never forced.
Fairness ==
    /\ WF_vars(OpenLog) /\ WF_vars(CheckRoot) /\ WF_vars(CheckConfig)
    /\ WF_vars(CreatePipes) /\ WF_vars(Fork) /\ WF_vars(SpawnInteractor)
    /\ WF_vars(ArmWatchdog) /\ WF_vars(Wait4Return) /\ WF_vars(ReadClock)
    /\ WF_vars(StoreAndClassify)
    /\ WF_vars(WdWake) /\ WF_vars(WdKillGuest) /\ WF_vars(WdKillInter)
    /\ WF_vars(Tick)

\* Whether run returns does not depend on max_cpu_time and max_memory: run
\* reads them only in the classification (runner.rs 130-147), which is
\* followed by Ok(result) whatever they are. Behaviours are followed from the
\* configurations that leave these two limits off.
InitLive == Init /\ cfg.max_cpu_time = -1 /\ cfg.max_memory = -1

LiveSpec == InitLive /\ [][Next]_vars /\ Fairness

(***************************************************************************)
(* The validator on its own: Config::check applied to every configuration  *)
(* of CheckConfigs.                                                        *)
(***************************************************************************)
InitCheck ==
    /\ cfg \in CheckConfigs
    /\ rule = "None"
    /\ isRoot = TRUE
    /\ interactor = FALSE
    /\ guestHalts = TRUE
    /\ pc = "check_only"
    /\ cargs = NoArgs
    /\ NoLogger
    /\ InitRest

ApplyCheck ==
    /\ pc = "check_only"
    /\ pc' = "checked"
    /\ checked' = (IF check(cfg) THEN "true" ELSE "false")
    /\ UNCHANGED <<childVars, interVars, sysVars, logVars, fdVars, cfg, isRoot, interactor, guestHalts, twiceVars, ret, result, log,
                   pipes, forks, gstate, gexit, execed, status, rusage, inter,
                   cancel_flag, wd, wdThreads, wdSlept, wdSaw, elapsed,
                   waitReturned, sigkillSent, lateKills, interKills>>

NextCheck == ApplyCheck

SpecCheck == InitCheck /\ [][NextCheck]_vars

(***************************************************************************)
(* The filters on their own: the filter of every policy evaluated on every *)
(* call of Syscalls.                                                       *)
(***************************************************************************)
InitSeccomp ==
    /\ cfg = Config(-1, -1, -1, 1, -1, -1)
    /\ rule = "None"
    /\ isRoot = TRUE
    /\ interactor = FALSE
    /\ guestHalts = TRUE
    /\ pc = "filter_only"
    /\ ret = "none" /\ result = DefaultResult /\ log = <<>> /\ checked = "none"
    /\ pipes = 0 /\ forks = 0 /\ gstate = "none"
    /\ gexit = [status |-> 0]
    /\ execed = FALSE /\ status = 0 /\ rusage = ZeroRusage /\ inter = "none"
    /\ cancel_flag = FALSE /\ wd = "none" /\ wdThreads = 0 /\ wdSlept = 0
    /\ wdSaw = "none" /\ elapsed = 0 /\ waitReturned = FALSE
    /\ sigkillSent = 0 /\ lateKills = 0 /\ interKills = 0
    /\ cstep = "none" /\ cstarted = <<>> /\ cfailed = "none"
    /\ gfd = [fd \in 0..2 |-> Inherited]
    /\ ifd = [stdin |-> Inherited, stdout |-> Inherited]
    /\ interExit = "none"
    /\ call \in Syscalls
    /\ decided = [p \in Policies |-> "none"]
    /\ cargs = NoArgs /\ rlim = InheritedLimits /\ argv = NotCalled
    /\ held = NoneHeld
    /\ call_no = "first" /\ old = NothingLeft /\ first = NoFirst
    /\ samePid = FALSE /\ staleKilled = FALSE
    /\ NoLogger

ApplyFilters ==
    /\ pc = "filter_only"
    /\ pc' = "filtered"
    /\ decided' = [p \in Policies |-> Evaluate(load_seccomp_rules(p), call)]
    /\ UNCHANGED <<childVars, interVars, call, logVars, fdVars, cfg, isRoot, interactor, guestHalts, twiceVars, ret, result, log, checked,
                   pipes, forks, gstate, gexit, execed, status, rusage, inter,
                   cancel_flag, wd, wdThreads, wdSlept, wdSaw, elapsed,
                   waitReturned, sigkillSent, lateKills, interKills>>

NextSeccomp == ApplyFilters

SpecSeccomp == InitSeccomp /\ [][NextSeccomp]_vars

(***************************************************************************)
(* The resource limits on their own: child.rs 22-61 applied to the         *)
(* configurations Config::check accepts, one limit at a time.              *)
(***************************************************************************)
CpuTimes == 1..MaxCpuTime
Memories == 1..I64_MAX
RlimitConfigs ==
    { Config(cpu, -1, -1, 1, -1, -1) : cpu \in CpuTimes \cup {-1} }
    \cup { Config(-1, -1, mem, 1, -1, -1) : mem \in Memories }
    \cup { Config(1000, -1, KiB, 2, 1, 1) }

InitRlimit ==
    /\ cfg \in RlimitConfigs
    /\ rule = "None"
    /\ isRoot = TRUE
    /\ interactor = FALSE
    /\ guestHalts = TRUE
    /\ pc = "rlimit_only"
    /\ cargs = NoArgs
    /\ NoLogger
    /\ InitRest

ApplyRlimits ==
    /\ pc = "rlimit_only"
    /\ pc' = "rlimits_set"
    /\ \E overflow_checks \in BOOLEAN : rlim' = setrlimits(cfg, overflow_checks)
    /\ UNCHANGED <<rule, cstep, cstarted, cfailed, gfd, cargs, argv, interVars, sysVars, logVars, fdVars,
                   cfg, isRoot, interactor, guestHalts, twiceVars, ret, result, log, checked,
                   pipes, forks, gstate, gexit, execed, status, rusage, inter,
                   cancel_flag, wd, wdThreads, wdSlept, wdSaw, elapsed,
                   waitReturned, sigkillSent, lateKills, interKills>>

NextRlimit == ApplyRlimits

SpecRlimit == InitRlimit /\ [][NextRlimit]_vars

(***************************************************************************)
(* The vectors of execve on their own: child.rs 122-133 applied to lists   *)
(* of strings over Bytes.                                                  *)
(***************************************************************************)
Strings == UNION { [1..n -> Bytes] : n \in 0..MaxStrLen }
StringLists == UNION { [1..n -> Strings] : n \in 0..MaxArgs }
ExecArgs ==
    { [args |-> a, env |-> <<>>] : a \in StringLists }
    \cup { [args |-> <<>>, env |-> e] : e \in StringLists }
    \cup { [args |-> << <<97>> >>, env |-> << <<97, 97>> >>] }

InitExecve ==
    /\ cfg = Config(-1, -1, -1, 1, -1, -1)
    /\ rule = "None"
    /\ isRoot = TRUE
    /\ interactor = FALSE
    /\ guestHalts = TRUE
    /\ pc = "execve_only"
    /\ cargs \in ExecArgs
    /\ NoLogger
    /\ InitRest

ApplyExecve ==
    /\ pc = "execve_only"
    /\ pc' = "execve_called"
    /\ argv' = execve_vectors(cargs)
    /\ UNCHANGED <<rule, cstep, cstarted, cfailed, gfd, cargs, rlim, interVars, sysVars, logVars, fdVars,
                   cfg, isRoot, interactor, guestHalts, twiceVars, ret, result, log, checked,
                   pipes, forks, gstate, gexit, execed, status, rusage, inter,
                   cancel_flag, wd, wdThreads, wdSlept, wdSaw, elapsed,
                   waitReturned, sigkillSent, lateKills, interKills>>

NextExecve == ApplyExecve

SpecExecve == InitExecve /\ [][NextExecve]_vars

(***************************************************************************)
(* The logger on its own: a Logger opened in append mode on a file with    *)
(* some previous content, and up to MaxWrites calls of Logger::write.      *)
(***************************************************************************)
Messages == UNION { [1..n -> {"a", LF}] : n \in 0..MaxMsgLen }
PrevContents == { <<>>, <<"a", LF>>, <<"a">> }

\* logger.rs 52-58: OpenOptions::new().create(true).append(true).open(path)
InitLogger ==
    /\ cfg = Config(-1, -1, -1, 1, -1, -1)
    /\ rule = "None"
    /\ isRoot = TRUE
    /\ interactor = FALSE
    /\ guestHalts = TRUE
    /\ pc = "logging"
    /\ cargs = NoArgs
    /\ logfile \in PrevContents
    /\ writes = [before |-> logfile, calls |-> <<>>]
    /\ InitRest

\* logger.rs 78-119: the entry is formatted and given to write_all, which
\* stops at the first error, with any part of the entry already in the file;
\* the caller returns on a failed write (runner.rs 50, 64)
LoggerWrite ==
    /\ pc = "logging"
    /\ Len(writes.calls) < MaxWrites
    /\ \E level \in LogLevels, msg \in Messages :
         LET entry == log_write_fmt(level, "ts", "file", "line", msg)
         IN  \E k \in 0..Len(entry) :
               /\ logfile' = logfile \o SubSeq(entry, 1, k)
               /\ writes' = [writes EXCEPT !.calls = Append(@,
                                [level |-> level, message |-> msg, ok |-> (k = Len(entry))])]
               /\ pc' = IF k = Len(entry) THEN "logging" ELSE "log_failed"
    /\ UNCHANGED <<childVars, interVars, sysVars, fdVars, cfg, isRoot, interactor, guestHalts, twiceVars, ret, result, log, checked,
                   pipes, forks, gstate, gexit, execed, status, rusage, inter,
                   cancel_flag, wd, wdThreads, wdSlept, wdSaw, elapsed,
                   waitReturned, sigkillSent, lateKills, interKills>>

NextLogger == LoggerWrite

SpecLogger == InitLogger /\ [][NextLogger]_vars

(***************************************************************************)
(* Properties.                                                             *)
(***************************************************************************)
Returned == pc = "done"
ReturnedOk == pc = "done" /\ ret = "Ok"
LogFailed == ret \in {"Err: open log", "Err: write log"}
NothingSpawned ==
    forks = 0 /\ gstate = "none" /\ inter = "none" /\ wdThreads = 0

\* C1 as stated: called by a process that is not root, run returns a RunResult
\* whose verdict is RootRequired, and nothing is forked or spawned.
C1_Original ==
    ~isRoot =>
        /\ NothingSpawned
        /\ Returned => (ret = "Ok" /\ result.result = "RootRequired")

\* C1 amended: called by a process that is not root, run never forks or spawns
\* anything, and it returns either a RunResult whose verdict is RootRequired or,
\* when opening or writing the log file failed, the Err of that failure.
C1_RootGate ==
    ~isRoot =>
        /\ NothingSpawned
        /\ Returned => \/ ret = "Ok" /\ result.result = "RootRequired"
                       \/ LogFailed

\* a non-root call with an invalid configuration has returned RootRequired
C1_Witness ==
    ~isRoot /\ ~check(cfg) /\ ReturnedOk /\ result.result = "RootRequired"

\* C2: Config::check returns false iff one of the five limits that admit -1 is
\* < 1 and # -1, or max_stack < 1; otherwise it returns true.
C2_CheckIff ==
    checked # "none" =>
        LET minusOneLimits == {cfg.max_cpu_time, cfg.max_real_time, cfg.max_memory,
                               cfg.max_process_number, cfg.max_output_size}
            rejected == (\E v \in minusOneLimits : v < 1 /\ v # -1) \/ cfg.max_stack < 1
        IN  checked = (IF rejected THEN "false" ELSE "true")

\* check has rejected a configuration whose only fault is max_stack = -1
C2_Witness ==
    /\ pc = "checked"
    /\ checked = "false"
    /\ cfg.max_stack = -1
    /\ cfg.max_cpu_time = -1 /\ cfg.max_real_time = 1 /\ cfg.max_memory = 2
    /\ cfg.max_process_number = -1 /\ cfg.max_output_size = 1

\* C3 as stated: called as root with a configuration that fails the check, run
\* returns InvalidConfig, a Fatal line is in the log, nothing is spawned.
C3_Original ==
    (isRoot /\ ~check(cfg)) =>
        /\ NothingSpawned
        /\ Returned => /\ ret = "Ok" /\ result.result = "InvalidConfig"
                       /\ \E i \in 1..Len(log) : log[i].level = "Fatal"

\* C3 amended: called as root with a configuration that fails the check, run
\* spawns nothing and returns either InvalidConfig with a Fatal line written to
\* the log or, when opening or writing the log file failed, the Err of that failure.
C3_InvalidConfig ==
    (isRoot /\ ~check(cfg)) =>
        /\ NothingSpawned
        /\ Returned => \/ /\ ret = "Ok" /\ result.result = "InvalidConfig"
                          /\ \E i \in 1..Len(log) : log[i].level = "Fatal"
                       \/ LogFailed

\* a root call with an invalid configuration has returned InvalidConfig
C3_Witness ==
    /\ isRoot /\ checked = "false" /\ ReturnedOk
    /\ result.result = "InvalidConfig" /\ Len(log) = 1

(***************************************************************************)
(* What the supervisor measured, and the classification rules 1 to 8.      *)
(***************************************************************************)
\* run returned the result of the classification
Classified == ReturnedOk /\ waitReturned
Sig == IF WIFSIGNALED(status) THEN WTERMSIG(status) ELSE 0
ExitCode == WEXITSTATUS(status)
OverMemory == cfg.max_memory # -1 /\ MemoryOf(rusage) > cfg.max_memory
OverRealTime == cfg.max_real_time # -1 /\ result.real_time > cfg.max_real_time
OverCpuTime == cfg.max_cpu_time # -1 /\ CpuTimeOf(rusage) > cfg.max_cpu_time

\* The verdict of rules 1 to 8: rule 1 is terminal, the last matching rule of
\* 3 to 8 decides. refineAfterSegv tells whether rules 6, 7 and 8 are also
\* applied to a guest terminated by SIGSEGV.
RuleVerdict(refineAfterSegv) ==
    LET refine == Sig # SIGSEGV \/ refineAfterSegv
    IN  CASE Sig = SIGUSR1 -> "SystemError"
          [] Sig # SIGUSR1 /\ refine /\ OverCpuTime -> "CpuTimeLimitExceeded"
          [] Sig # SIGUSR1 /\ refine /\ ~OverCpuTime /\ OverRealTime
                -> "RealTimeLimitExceeded"
          [] Sig # SIGUSR1 /\ refine /\ ~OverCpuTime /\ ~OverRealTime /\ OverMemory
                -> "MemoryLimitExceeded"
          [] OTHER ->
                IF Sig = SIGSEGV
                THEN (IF OverMemory THEN "MemoryLimitExceeded" ELSE "RuntimeError")
                ELSE IF Sig # 0 \/ ExitCode # 0 THEN "RuntimeError" ELSE "Success"

C6_MemoryLimit ==
    (Classified /\ OverMemory /\ ~OverRealTime /\ ~OverCpuTime /\ Sig # SIGUSR1)
        => result.result = "MemoryLimitExceeded"

\* a guest ended by SIGSEGV over its memory limit got MemoryLimitExceeded
C6_Witness ==
    /\ Classified /\ OverMemory /\ ~OverRealTime /\ ~OverCpuTime
    /\ Sig = SIGSEGV /\ result.result = "MemoryLimitExceeded"

(***************************************************************************)
(* The watchdog.                                                           *)
(***************************************************************************)
\* C7: a guest that never stops by itself, run with max_real_time and
\* max_cpu_time both different from -1, is classified CpuTimeLimitExceeded or
\* RealTimeLimitExceeded, also when the watchdog's SIGKILL ended it.
C7_Original ==
    (Classified /\ ~guestHalts /\ execed
        /\ cfg.max_real_time # -1 /\ cfg.max_cpu_time # -1)
      => result.result \in {"CpuTimeLimitExceeded", "RealTimeLimitExceeded"}

\* C8 as stated: the watchdog never sends SIGKILL to the guest PID once
\* wait4 on that PID has returned.
C8_Original == lateKills = 0

\* C8 amended: a watchdog that loads the cancel flag after the supervisor has
\* stored true in it sends no SIGKILL at all; a SIGKILL sent after wait4 has
\* returned comes from a watchdog that loaded the flag before that store.
C8_NoKillOnceCancelSeen ==
    /\ wdSaw = "true" => (sigkillSent = 0 /\ wd = "done")
    /\ lateKills > 0 => wdSaw = "false"

\* a guest exited by itself and was reaped, the watchdog then found the flag
\* set and sent nothing
C8_Witness ==
    /\ guestHalts /\ waitReturned /\ gstate = "reaped"
    /\ wd = "done" /\ wdSaw = "true" /\ sigkillSent = 0

\* C9: called as root with a valid configuration whose max_real_time is not
\* -1, run eventually returns, whatever the guest does.
C9_RunReturns ==
    (isRoot /\ check(cfg) /\ cfg.max_real_time # -1) => <>Returned

\* run has returned for a guest that never stops, ended by the watchdog
C9_Witness ==
    /\ Returned /\ ~guestHalts /\ execed /\ cfg.max_cpu_time = -1
    /\ sigkillSent = 1 /\ waitReturned

\* C10: the watchdog acts only after a full sleep of max_real_time ms; with
\* the flag false at its load it sends SIGKILL to the guest PID and kills the
\* interactor if one was spawned, with the flag true it sends nothing; it
\* sends each kill at most once.
C10_WatchdogAction ==
    /\ wdSaw # "none" => wdSlept >= cfg.max_real_time
    /\ (wd = "done" /\ wdSaw = "false")
          => (sigkillSent = 1 /\ inter # "running"
              /\ interKills = (IF inter = "killed" THEN 1 ELSE 0))
    /\ wdSaw = "true" => (sigkillSent = 0 /\ interKills = 0)
    /\ sigkillSent <= 1 /\ interKills <= 1 /\ wdThreads <= 1

\* the watchdog found the flag false and killed the guest and the interactor
C10_Witness ==
    /\ wd = "done" /\ wdSaw = "false" /\ wdSlept = cfg.max_real_time
    /\ sigkillSent = 1 /\ interKills = 1 /\ inter = "killed"

(***************************************************************************)
(* The interactor.                                                         *)
(***************************************************************************)
\* C11: in interactor mode, when the interactor ended with a non-zero status
\* or by a signal and the guest verdict is otherwise Success, run returns
\* WrongAnswer; when the interactor exited with status 0 the guest verdict
\* is kept.
C11_Original ==
    (Classified /\ inter # "none" /\ interExit # "none")
      => result.result =
            (IF interExit \in {"nonzero", "signaled"} /\ RuleVerdict(FALSE) = "Success"
             THEN "WrongAnswer" ELSE RuleVerdict(FALSE))

\* C12: in interactor mode fd 0 of the guest is the read end of a pipe whose
\* write end is the interactor's stdout, and fd 1 of the guest is the write
\* end of a pipe whose read end is the interactor's stdin.
C12_Original ==
    (interactor /\ inter # "none" /\ gfd[2] # Inherited)
      => \E p, q \in {"pipe1", "pipe2"} :
            /\ gfd[0] = Fd(p, "read") /\ ifd.stdout = Fd(p, "write")
            /\ gfd[1] = Fd(q, "write") /\ ifd.stdin = Fd(q, "read")

(***************************************************************************)
(* The forked child.                                                       *)
(***************************************************************************)
\* the error code of each step of the initializer
StepError(step) ==
    CASE step = "rlimit" -> "SetrlimitFailed"
      [] step = "redirect" -> "Dup2Failed"
      [] step \in {"setgid", "setuid"} -> "SetuidFailed"
      [] step = "seccomp" -> "LoadSeccompFailed"
      [] step = "execve" -> "ExecveFailed"

\* C13: when the child failed before exec and exited with a setup error code,
\* the RunResult returned by run carries the corresponding setup-error
\* verdict, not a guest verdict.
C13_Original ==
    (Classified /\ cfailed # "none") => result.result = StepError(cfailed)

\* C14 as stated: a guest under the CCpp policy that attempts a call the
\* policy disallows is terminated by a signal and classified RuntimeError.
C14_Original ==
    (Classified /\ rule = "CCpp" /\ call # NoCall)
      => (result.signal # 0 /\ result.result = "RuntimeError")

\* C14 amended: a guest under the CCpp policy that attempts a call the policy
\* disallows is terminated by SIGSYS, and the run is classified RuntimeError
\* unless its CPU time, real time or memory is over the configured limit, in
\* which case the verdict is the one of that limit (CPU time first, then
\* real time, then memory).
C14_DisallowedSyscall ==
    (Classified /\ rule = "CCpp" /\ call # NoCall)
      => /\ result.signal = SIGSYS
         /\ result.result =
              (IF OverCpuTime THEN "CpuTimeLimitExceeded"
               ELSE IF OverRealTime THEN "RealTimeLimitExceeded"
               ELSE IF OverMemory THEN "MemoryLimitExceeded"
               ELSE "RuntimeError")

\* a guest killed for calling socket, within all limits, got RuntimeError
C14_Witness ==
    /\ Classified /\ rule = "CCpp" /\ call.name = "socket"
    /\ ~OverCpuTime /\ ~OverRealTime /\ ~OverMemory
    /\ result.signal = SIGSYS /\ result.result = "RuntimeError"

(***************************************************************************)
(* The policies.                                                           *)
(***************************************************************************)
Filtered == pc = "filtered"
\* neither O_WRONLY nor O_RDWR, the two lowest bits, is set in flags
ReadOnlyFlags(flags) == flags % 4 = 0
WriteFlags(flags) == flags % 2 = 1 \/ (flags \div 2) % 2 = 1

\* C15: under CCpp a call is allowed iff it is in the whitelist, or it is open
\* (flags in argument 1) or openat (flags in argument 2) with
\* flags & (O_WRONLY | O_RDWR) = 0; everything else kills the process.
C15_CCppAllowIff ==
    Filtered =>
        LET allowed == \/ call.name \in Range(syscalls_whitelist)
                       \/ call.name = "open" /\ ReadOnlyFlags(call.args[2])
                       \/ call.name = "openat" /\ ReadOnlyFlags(call.args[3])
        IN  decided["CCpp"] = (IF allowed THEN "Allow" ELSE "KillProcess")

\* openat whose argument 1 has the write bits and whose flags have none is allowed
C15_Witness ==
    /\ Filtered /\ call.name = "openat" /\ call.args[2] = 3 /\ call.args[3] = 4
    /\ decided["CCpp"] = "Allow"

\* C16: CCppFileIO allows every call that CCpp allows, allows open, openat,
\* dup, dup2 and dup3 with any arguments, and kills every other call as CCpp
\* does.
C16_FileIOExtendsCCpp ==
    Filtered =>
        decided["CCppFileIO"] =
            (IF decided["CCpp"] = "Allow"
                \/ call.name \in {"open", "openat", "dup", "dup2", "dup3"}
             THEN "Allow" ELSE "KillProcess")

\* dup3 is allowed by CCppFileIO and killed by CCpp
C16_Witness ==
    /\ Filtered /\ call.name = "dup3"
    /\ decided["CCppFileIO"] = "Allow" /\ decided["CCpp"] = "KillProcess"

\* C17: under General a call kills the process iff it is clone, fork, vfork,
\* kill, execveat or socket, or it is open/openat whose flags have O_WRONLY
\* set or O_RDWR set; every other call is allowed.
C17_GeneralKillIff ==
    Filtered =>
        LET killed == \/ call.name \in {"clone", "fork", "vfork", "kill",
                                        "execveat", "socket"}
                      \/ call.name = "open" /\ WriteFlags(call.args[2])
                      \/ call.name = "openat" /\ WriteFlags(call.args[3])
        IN  decided["General"] = (IF killed THEN "KillProcess" ELSE "Allow")

\* openat with flags O_RDWR is killed by General
C17_Witness ==
    /\ Filtered /\ call.name = "openat" /\ call.args[3] = O_RDWR
    /\ call.args[2] = 0 /\ decided["General"] = "KillProcess"

\* C18: Golang and Node take the same action on every call: kill on socket,
\* fork, vfork, kill and execveat, allow everything else.
C18_GolangNodeSame ==
    Filtered =>
        /\ decided["Golang"] = decided["Node"]
        /\ decided["Node"] =
             (IF call.name \in {"socket", "fork", "vfork", "kill", "execveat"}
              THEN "KillProcess" ELSE "Allow")

\* execveat is killed by both
C18_Witness ==
    /\ Filtered /\ call.name = "execveat"
    /\ decided["Golang"] = "KillProcess" /\ decided["Node"] = "KillProcess"

(***************************************************************************)
(* The order of the initializer.                                           *)
(***************************************************************************)
ChildOrder == << "rlimit", "redirect", "setgid", "setuid", "seccomp", "execve" >>
\* the filter is installed only when a policy is configured
ChildOrderOf(r) ==
    IF r = "None" THEN << "rlimit", "redirect", "setgid", "setuid", "execve" >>
    ELSE ChildOrder

\* C19: the child starts its steps in the fixed order rlimits, redirection,
\* setgid, setuid, filter, execve; a step starts only after all earlier ones
\* succeeded, and execve is not reached before the others are done.
C19_ChildOrder ==
    /\ Len(cstarted) <= Len(ChildOrderOf(rule))
    /\ cstarted = SubSeq(ChildOrderOf(rule), 1, Len(cstarted))
    /\ cfailed # "none" => cstarted[Len(cstarted)] = cfailed
    /\ execed => cstarted = ChildOrderOf(rule)

\* the guest was exec'ed after all six steps, the filter among them
C19_Witness ==
    execed /\ rule = "CCpp" /\ cstarted = ChildOrder /\ cfailed = "none"

\* C20: a failure at a step ends the child with that step's error code, and
\* no later step, the execve in particular, is performed.
C20_ChildFailure ==
    cfailed # "none" =>
        /\ gstate \in {"zombie", "reaped"}
        /\ cstep = "exited"
        /\ gexit.status = ExitedStatus(to_i32(StepError(cfailed)))
        /\ cstarted[Len(cstarted)] = cfailed
        /\ ~execed

\* the filter installation failed and the child was reaped with status -6 & 0xff
C20_Witness ==
    /\ cfailed = "seccomp" /\ gstate = "reaped" /\ ~execed
    /\ WEXITSTATUS(status) = 250

(***************************************************************************)
(* The resource limits of the child.                                       *)
(***************************************************************************)
RlimitsSet == pc = "rlimits_set"
RLIMIT_CPU == rlim.limits["RLIMIT_CPU"]
RLIMIT_AS == rlim.limits["RLIMIT_AS"]
\* ceil(ms / 1000)
CeilSeconds(ms) == (ms + 999) \div 1000

C22_Original ==
    (RlimitsSet /\ cfg.max_memory # -1) =>
        /\ ~rlim.overflowed
        /\ RLIMIT_AS.set
        /\ RLIMIT_AS.soft = 2 * cfg.max_memory
        /\ RLIMIT_AS.hard = 2 * cfg.max_memory

(***************************************************************************)
(* The vectors of execve.                                                  *)
(***************************************************************************)
\* C23 as stated: execve is called with vectors equal to config.args and
\* config.env, element for element, whatever strings they hold.
C23_Original ==
    pc = "execve_called" => /\ argv.called
                            /\ argv.args = cargs.args
                            /\ argv.env = cargs.env

(***************************************************************************)
(* The log file.                                                           *)
(***************************************************************************)
RECURSIVE Newlines(_)
\* the number of line terminators of a text
Newlines(text) ==
    IF text = <<>> THEN 0
    ELSE (IF Head(text) = LF THEN 1 ELSE 0) + Newlines(Tail(text))
RECURSIVE Entries(_)
\* the entries of the recorded calls, one after the other
Entries(calls) ==
    IF calls = <<>> THEN <<>> ELSE EntryOf(Head(calls)) \o Entries(Tail(calls))
RECURSIVE MessageNewlines(_)
\* the number of line terminators inside the messages of the recorded calls
MessageNewlines(calls) ==
    IF calls = <<>> THEN 0
    ELSE Newlines(Head(calls).message) + MessageNewlines(Tail(calls))
AllWritten == \A i \in 1..Len(writes.calls) : writes.calls[i].ok
KeepsPrevious ==
    /\ Len(logfile) >= Len(writes.before)
    /\ SubSeq(logfile, 1, Len(writes.before)) = writes.before

\* C27 as stated: after any sequence of writes the file is its previous
\* content followed by one line per write, in call order, whatever the messages.
C27_Original ==
    pc \in {"logging", "log_failed"} =>
        /\ logfile = writes.before \o Entries(writes.calls)
        /\ Newlines(logfile) = Newlines(writes.before) + Len(writes.calls)

\* C27: the previous content is never changed; the writes that succeeded
\* have appended their entries `level [ts] [file:line] message` + newline in
\* call order, which is one line per write when no message holds a newline
\* (a message with n newlines adds n + 1 lines); only a failed write, the
\* last one, may leave a part of its entry.
C27_OneEntryPerWrite ==
    pc \in {"logging", "log_failed"} =>
        /\ KeepsPrevious
        /\ AllWritten =>
             /\ logfile = writes.before \o Entries(writes.calls)
             /\ Newlines(logfile) =
                  Newlines(writes.before) + Len(writes.calls)
                    + MessageNewlines(writes.calls)
             /\ (\A i \in 1..Len(writes.calls) : Newlines(writes.calls[i].message) = 0)
                  => Newlines(logfile) = Newlines(writes.before) + Len(writes.calls)
             /\ writes.calls # <<>> => logfile[Len(logfile)] = LF
        /\ ~AllWritten =>
             /\ ~writes.calls[Len(writes.calls)].ok
             /\ \A i \in 1..(Len(writes.calls) - 1) : writes.calls[i].ok
             /\ \E k \in 0..Len(EntryOf(writes.calls[Len(writes.calls)])) - 1 :
                  logfile = writes.before
                            \o Entries(SubSeq(writes.calls, 1, Len(writes.calls) - 1))
                            \o SubSeq(EntryOf(writes.calls[Len(writes.calls)]), 1, k)

\* two writes without newlines after a previous line: three lines in the file
C27_Witness ==
    /\ pc = "logging" /\ Len(writes.calls) = 2 /\ AllWritten
    /\ writes.before = <<"a", LF>>
    /\ \A i \in 1..2 : writes.calls[i].message = <<"a">>
    /\ Newlines(logfile) = 3

(***************************************************************************)
(* Errors of the supervisor: what is logged, what is returned as Err.      *)
(***************************************************************************)
SetupVerdicts ==
    { "RootRequired", "InvalidConfig", "ForkFailed", "WaitFailed",
      "SetrlimitFailed", "Dup2Failed", "SetuidFailed", "LoadSeccompFailed",
      "ExecveFailed" }

\* C24 as stated: every setup-error verdict run returns comes with a Fatal
\* entry written to the log before run returns.
C24_Original ==
    (ReturnedOk /\ result.result \in SetupVerdicts) =>
        \E i \in 1..Len(log) : log[i].level = "Fatal"

\* C25 as stated: run returns Err only when opening or writing the log file
\* fails; a failure of pipe creation, fork, wait4 or the clock is a verdict.
C25_Original ==
    Returned => (ret = "Ok" \/ LogFailed)

\* C25: run returns Err when opening or writing the log file fails, when one
\* of the two pipes cannot be created and when the clock cannot be read after
\* wait4; a failure of fork or wait4 is returned as the verdict ForkFailed or
\* WaitFailed in an Ok result.
C25_ErrCauses ==
    Returned =>
        /\ ret \in {"Ok", "Err: open log", "Err: write log", "Err: pipe", "Err: clock"}
        /\ ret = "Err: pipe" <=> (checked = "true" /\ pipes < 2)
        /\ ret = "Err: clock" <=> (waitReturned /\ ~cancel_flag)
        /\ (checked = "true" /\ pipes = 2 /\ forks = 0)
             <=> (ret = "Ok" /\ result.result = "ForkFailed")
        /\ (forks = 1 /\ ~waitReturned)
             <=> (ret = "Ok" /\ result.result = "WaitFailed")

\* the guest was reaped, the clock failed, run returned Err
C25_Witness ==
    Returned /\ ret = "Err: clock" /\ gstate = "reaped" /\ waitReturned

\* C28: a guest terminated by SIGUSR1 is SystemError whatever the resources
\* it used and the limits are; no refinement overrides it.
C28_Usr1Terminal ==
    (Classified /\ Sig = SIGUSR1) => result.result = "SystemError"

\* SIGUSR1 with the memory, the real-time and the CPU-time limit all exceeded
C28_Witness ==
    /\ Classified /\ Sig = SIGUSR1 /\ result.result = "SystemError"
    /\ OverMemory /\ OverRealTime /\ OverCpuTime

(***************************************************************************)
(* The pipes.                                                              *)
(***************************************************************************)
\* C29 as stated: without an interactor no pipe is created at any point.
C29_Original ==
    ~interactor => pipes = 0

\* C30 as stated: in interactor mode, with the guest forked and the interactor
\* spawned, the supervisor blocked in wait4 holds none of the pipe ends it
\* handed off, and each of them is open in exactly one process.
C30_Original ==
    (pc = "wait4" /\ interactor /\ inter = "running" /\ interExit = "none"
       /\ gstate \in {"setup", "running"}) =>
        \A e \in PipeEnds : "parent" \notin held[e] /\ Cardinality(held[e]) = 1

(***************************************************************************)
(* Two back-to-back calls of run on the same configuration.  When the      *)
(* first call has returned, the caller calls run again: every local of run *)
(* is new, and what the first call left behind is its detached watchdog    *)
(* thread (runner.rs 87-95) and the pid of its guest.                      *)
(***************************************************************************)
InitTwice ==
    /\ cfg = Config(-1, 1, -1, 1, -1, -1)
    /\ rule = "None"
    /\ isRoot = TRUE
    /\ interactor = FALSE
    /\ guestHalts = TRUE
    /\ pc = "new"
    /\ cargs = NoArgs
    /\ NoLogger
    /\ InitRest

\* the watchdog still sends its SIGKILL if it has loaded the flag as false and
\* not yet called kill, or if it sleeps and the flag was never stored
WatchdogArmed == wd = "kill_guest" \/ (wd = "sleeping" /\ ~cancel_flag)

CallAgain ==
    /\ Classified
    /\ call_no = "first"
    /\ call_no' = "second"
    /\ old' = [armed |-> WatchdogArmed, pidFree |-> (gstate = "reaped")]
    /\ first' = [classified |-> TRUE, verdict |-> result.result,
                 status |-> status, overReal |-> OverRealTime]
    /\ samePid' = FALSE
    /\ staleKilled' = FALSE
    /\ pc' = "new"
    /\ ret' = "none"
    /\ result' = DefaultResult
    /\ log' = <<>>
    /\ checked' = "none"
    /\ pipes' = 0
    /\ forks' = 0
    /\ gstate' = "none"
    /\ gexit' = [status |-> 0]
    /\ execed' = FALSE
    /\ status' = 0
    /\ rusage' = ZeroRusage
    /\ inter' = "none"
    /\ cancel_flag' = FALSE
    /\ wd' = "none"
    /\ wdThreads' = 0
    /\ wdSlept' = 0
    /\ wdSaw' = "none"
    /\ elapsed' = 0
    /\ waitReturned' = FALSE
    /\ sigkillSent' = 0
    /\ lateKills' = 0
    /\ interKills' = 0
    /\ cstep' = "none"
    /\ cstarted' = <<>>
    /\ cfailed' = "none"
    /\ gfd' = [fd \in 0..2 |-> Inherited]
    /\ ifd' = [stdin |-> Inherited, stdout |-> Inherited]
    /\ interExit' = "none"
    /\ rlim' = InheritedLimits
    /\ argv' = NotCalled
    /\ held' = NoneHeld
    /\ UNCHANGED <<cfg, isRoot, interactor, guestHalts, rule, cargs, sysVars, logVars>>

\* runner.rs 90 in the thread of the first call: kill(child, SIGKILL) with the
\* pid of the first guest. It ends the process that has this pid now; if that
\* is none, or one outside the two calls, nothing changes here.
OldWdKillGuest ==
    /\ call_no = "second"
    /\ old.armed
    /\ Observed
    /\ old' = [old EXCEPT !.armed = FALSE]
    /\ IF samePid /\ gstate \in {"setup", "running"}
       THEN /\ Terminate(SignaledStatus(SIGKILL, FALSE))
            /\ staleKilled' = TRUE
       ELSE UNCHANGED <<gstate, gexit, held, staleKilled>>
    /\ UNCHANGED <<childVars, interVars, sysVars, logVars, cfg, isRoot, interactor, guestHalts,
                   call_no, first, samePid, pc, ret, result, log,
                   checked, pipes, forks, execed, status, rusage, inter, cancel_flag,
                   wd, wdThreads, wdSlept, wdSaw, elapsed, waitReturned,
                   sigkillSent, lateKills, interKills>>

NextTwice ==
    \/ OpenLog
    \/ CheckRoot
    \/ CheckConfig
    \/ CreatePipes
    \/ Fork
    \/ SpawnInteractor
    \/ ArmWatchdog
    \/ Wait4Return
    \/ Wait4Fail
    \/ ReadClock
    \/ StoreAndClassify
    \/ ChildSetrlimits
    \/ ChildRedirect
    \/ ChildSetgid
    \/ ChildSetuid
    \/ ChildLoadSeccomp
    \/ ChildExecve
    \/ GuestExit
    \/ GuestSignaled
    \/ WdWake
    \/ WdKillGuest
    \/ WdKillInter
    \/ Tick
    \/ CallAgain
    \/ OldWdKillGuest

SpecTwice == InitTwice /\ [][NextTwice]_vars

\* C26 as stated: the second of two back-to-back calls with the same
\* configuration, on a guest that ends by itself as in the first call (or is
\* ended before it can), within the same limits, returns the verdict of the
\* first call: nothing the first call left behind changes it.
C26_Original ==
    ( /\ call_no = "second" /\ Classified /\ first.classified
      /\ sigkillSent = 0
      /\ status \in {first.status, SignaledStatus(SIGKILL, FALSE)}
      /\ OverRealTime = first.overReal )
    => result.result = first.verdict

(***************************************************************************)
(* The watchdog thread and its cancel flag.                                *)
(***************************************************************************)
\* the supervisor has passed runner.rs 83-96
Armed == pc \in {"wait4", "clock", "store"} \/ (pc = "done" /\ forks = 1)

\* C31: a run has a watchdog thread iff the fork succeeded and max_real_time
\* is not -1, and never more than one; when max_real_time is -1 no SIGKILL is
\* ever sent to the guest.
C31_OneWatchdog ==
    /\ wdThreads <= 1
    /\ wdThreads = 1 => (forks = 1 /\ cfg.max_real_time # -1)
    /\ Armed => (wdThreads = 1 <=> cfg.max_real_time # -1)
    /\ ~Armed => (wdThreads = 0 /\ wd = "none")
    /\ cfg.max_real_time = -1 => (wd = "none" /\ sigkillSent = 0 /\ interKills = 0)

\* without a real-time limit, a guest that never stops is waited for with no
\* watchdog thread and no signal sent
C31_Witness ==
    /\ pc = "wait4" /\ cfg.max_real_time = -1 /\ ~guestHalts /\ execed
    /\ gstate = "running" /\ wdThreads = 0 /\ sigkillSent = 0 /\ elapsed = Horizon

\* the watchdog leaves its sleep while the guest is alive
WakesOnLiveGuest ==
    wd = "sleeping" /\ wd' # "sleeping" /\ gstate \in {"setup", "running"}

\* C32: the cancel flag is false until wait4 on the guest has returned, so a
\* timer that expires while the guest is running goes on to kill it, and the
\* guest is ended by that SIGKILL; once true the flag stays true.
C32_FlagAfterWait ==
    /\ [](cancel_flag => (waitReturned /\ gstate = "reaped"))
    /\ [][ /\ cancel_flag => cancel_flag'
           /\ WakesOnLiveGuest => (wd' = "kill_guest" /\ wdSaw' = "false")
           /\ (wd = "kill_guest" /\ wd' # "kill_guest"
                 /\ gstate \in {"setup", "running"})
                => (gstate' = "zombie"
                    /\ gexit'.status = SignaledStatus(SIGKILL, FALSE)) ]_vars

\* the timer expired on a running guest, which was killed and reaped; the
\* flag was stored after that
C32_Witness ==
    /\ ~guestHalts /\ execed /\ sigkillSent = 1 /\ lateKills = 0
    /\ gstate = "reaped" /\ status = SignaledStatus(SIGKILL, FALSE)
    /\ cancel_flag /\ pc = "done"

\* CPU times, in ms, that a guest can have consumed within max_cpu_time
WithinCpuTime == 0..cfg.max_cpu_time

C34_Original ==
    (Returned /\ Armed /\ wdThreads = 1) => cancel_flag

\* C35 as stated: in interactor mode, when run returns, the interactor has
\* been waited for by the supervisor or killed; none is left running.
C35_Original ==
    (Returned /\ inter # "none") => inter \in {"killed", "reaped"}

(***************************************************************************)
(* The RunResult as a whole.                                               *)
(***************************************************************************)
\* the guest exited normally with code 0
ExitedZero == ~WIFSIGNALED(status) /\ ExitCode = 0

EarlyVerdicts == {"RootRequired", "InvalidConfig", "ForkFailed", "WaitFailed"}
OtherFieldsZero ==
    /\ result.cpu_time = 0 /\ result.real_time = 0 /\ result.memory = 0
    /\ result.signal = 0 /\ result.exit_code = 0

\* C37: when run returns RootRequired, InvalidConfig, ForkFailed or
\* WaitFailed, every other field of the RunResult is 0.
C37_EarlyVerdictFrame ==
    (Returned /\ result.result \in EarlyVerdicts) => OtherFieldsZero

\* WaitFailed returned after a guest was forked and had been running for some
\* time, with nothing of it in the result
C37_Witness ==
    /\ ReturnedOk /\ result.result = "WaitFailed" /\ forks = 1
    /\ elapsed > 0 /\ OtherFieldsZero

\* C38: the signal field is non-zero exactly when the guest was terminated by
\* a signal (and is that signal), 0 when it exited normally or no status was
\* obtained; a non-zero signal implies exit_code = 0.
C38_SignalOrExitCode ==
    Returned =>
        /\ result.signal # 0 <=> (Classified /\ WIFSIGNALED(status))
        /\ Classified => result.signal = Sig
        /\ result.signal # 0 => result.exit_code = 0
        /\ (Classified /\ ~WIFSIGNALED(status)) => result.exit_code = ExitCode

\* a guest ended by a signal with a core dump: the signal is reported and the
\* exit code is 0
C38_Witness ==
    /\ Classified /\ WIFSIGNALED(status) /\ status >= 128
    /\ result.signal = WTERMSIG(status) /\ result.exit_code = 0

(***************************************************************************)
(* General and CCpp on open and openat.                                    *)
(***************************************************************************)
\* the flags argument of the call: argument 1 of open, argument 2 of openat
OpenFlags == IF call.name = "open" THEN call.args[2] ELSE call.args[3]
WriteAccess == BitAnd(OpenFlags, O_WRONLY + O_RDWR) # 0

\* C39: for open and openat and every value of the flags, General kills the
\* call exactly when CCpp does not allow it, that is iff
\* flags & (O_WRONLY | O_RDWR) # 0.
C39_GeneralKillsIffCCppDenies ==
    (Filtered /\ call.name \in {"open", "openat"}) =>
        /\ decided["General"] = "KillProcess" <=> decided["CCpp"] # "Allow"
        /\ decided["General"] = "KillProcess" <=> WriteAccess
        /\ decided["CCpp"] = "Allow" <=> ~WriteAccess

\* openat with O_WRONLY | O_RDWR in its flags and another value in argument 1:
\* killed by General, not allowed by CCpp
C39_Witness ==
    /\ Filtered /\ call.name = "openat"
    /\ call.args[3] = O_WRONLY + O_RDWR /\ call.args[2] = 0
    /\ decided["General"] = "KillProcess" /\ decided["CCpp"] # "Allow"

====
